---- MODULE Spec2Model ----
(***************************************************************************)
(* Fantasy draft assistant: the command line tools (compute_fp.py,         *)
(* compute_vorp.py, make_tiers.py, remove_players.py) and the Streamlit    *)
(* application (streamlit_draft_app.py).                                   *)
(*                                                                         *)
(* Numbers.  Statistics are whole numbers.  Scoring coefficients are kept  *)
(* in thousandths of a point, fantasy points, VORP and the tier gap in     *)
(* hundredths of a point (the two decimals the code rounds to).            *)
(* Tables are sequences of rows, a row is a record of its columns.         *)
(* An optional value (Python None, a file that does not exist) is the      *)
(* empty sequence None, a present value x is Some(x) = <<x>>.              *)
(***************************************************************************)
EXTENDS Integers, Sequences, FiniteSets, TLC

VARIABLES
    prog,           \* which program this run executes: "app", "cli", or a stage under study
    now,            \* the last reading of the wall clock (datetime.now()), in seconds
    players,        \* st.session_state.players
    fp,             \* st.session_state.fp
    vorp,           \* st.session_state.vorp
    tiers,          \* st.session_state.tiers
    board,          \* st.session_state.board
    picks_log,      \* st.session_state.picks_log
    tiers_csv,      \* the file tiers_output.csv
    draft_board_csv,\* the file draft_board.csv
    picks_log_csv,  \* the file picks_log.csv
    inv,            \* the arguments of the last invocation / the last button pressed
    report,         \* what the last invocation printed or showed
    call,           \* the arguments of the stage call under study
    result          \* the outputs of the stage call under study

vars == <<prog, now, players, fp, vorp, tiers, board, picks_log, tiers_csv, draft_board_csv, picks_log_csv, inv, report, call, result>>

sessionVars == <<players, fp, vorp, tiers, board, picks_log>>

fileVars == <<tiers_csv, draft_board_csv, picks_log_csv>>

boardVars == <<now, players, fp, vorp, tiers, board, picks_log, tiers_csv, draft_board_csv, picks_log_csv, inv, report>>

None == <<>>

Some(x) == <<x>>

\* ------------------------------------------------------------------ bounds

\* rows of an input table of the tier stage
MaxRows == 3

\* rows of an input table of the VORP stage
MaxVorpRows == 3

\* ------------------------------------------------------------------ tables

OFF_POS == {"QB", "RB", "WR", "TE"}

\* str.upper / str.lower / str.strip on the strings of the model
str_upper(s) ==
    CASE s \in {"qb", "Qb"} -> "QB"
      [] s \in {"rb", "Rb"} -> "RB"
      [] s \in {"wr", "Wr"} -> "WR"
      [] s \in {"te", "Te"} -> "TE"
      [] s = "hb" -> "HB"
      [] s = "k" -> "K"
      [] s = " rb " -> " RB "
      [] s = "wr/te" -> "WR/TE"
      [] OTHER -> s

str_lower(s) ==
    CASE s \in {"Josh Allen", "JOSH ALLEN"} -> "josh allen"
      [] s = " Josh Allen " -> " josh allen "
      [] s = "Josh" -> "josh"
      [] s = "Jalen Hurts" -> "jalen hurts"
      [] s = "Zed" -> "zed"
      [] s = "Player" -> "player"
      [] s = "Team" -> "team"
      [] s = "POS" -> "pos"
      [] s = "YDS" -> "yds"
      [] s = "TDS" -> "tds"
      [] s = "INTS" -> "ints"
      [] s = "YDS.1" -> "yds.1"
      [] s = "TDS.1" -> "tds.1"
      [] s = "REC" -> "rec"
      [] OTHER -> s

str_strip(s) ==
    CASE s = " Josh Allen " -> "Josh Allen"
      [] s = " josh allen " -> "josh allen"
      [] s = " rb " -> "rb"
      [] s = " RB " -> "RB"
      [] s = " wr" -> "wr"
      [] s = " " -> ""
      [] OTHER -> s

\* the row r with column c set to v (df[c] = v)
WithCol(r, c, v) == [x \in DOMAIN r \cup {c} |-> IF x = c THEN v ELSE r[x]]

\* the row r without the columns cs (df.drop(columns=cs))
DropCols(r, cs) == [x \in DOMAIN r \ cs |-> r[x]]

\* the order of two sort keys (tuples of integers of one length), first column first
KeyLess(a, b) == \E k \in 1..Len(a) : a[k] < b[k] /\ \A j \in 1..(k - 1) : a[j] = b[j]

\* DataFrame.sort_values: the rows of t in ascending order of their keys (keys[i] the
\* key of row i, a descending column negated), rows of equal keys in their order in t
sort_values(t, keys) ==
    LET sorted(rows, ks) ==
            LET n == Len(rows)
                Before(j, i) == KeyLess(ks[j], ks[i]) \/ (ks[j] = ks[i] /\ j < i)
                rank == [i \in 1..n |-> Cardinality({j \in 1..n : Before(j, i)}) + 1]
            IN  [p \in 1..n |-> rows[CHOOSE i \in 1..n : rank[i] = p]]
    IN  CHOOSE r \in {sorted(rows, ks) : rows \in {t}, ks \in {keys}} : TRUE

\* pd.concat of a sequence of tables
RECURSIVE concat(_)
concat(ts) == IF ts = <<>> THEN <<>> ELSE Head(ts) \o concat(Tail(ts))

\* the order of position strings under an ascending sort
PosOrd(p) == CASE p = "QB" -> 1 [] p = "RB" -> 2 [] p = "TE" -> 3 [] p = "WR" -> 4 [] OTHER -> 0

\* ------------------------------------------------------------------ tiers

\* make_tiers.py: the scan of make_pos_tiers from row i on; hasPrev is "prev is not None"
RECURSIVE make_pos_tiers_scan(_, _, _, _, _, _)
make_pos_tiers_scan(df_pos, gap, i, tier, hasPrev, prev) ==
    IF i > Len(df_pos) THEN <<>>
    ELSE LET v == df_pos[i].VORP
             t == IF hasPrev /\ (prev - v) > gap THEN tier + 1 ELSE tier
         IN  <<t>> \o make_pos_tiers_scan(df_pos, gap, i + 1, t, TRUE, v)

make_pos_tiers_ge(df_pos, gap) ==
    LET RECURSIVE scan(_, _, _)
        scan(i, tier, prev) ==
            IF i > Len(df_pos) THEN <<>>
            ELSE LET v == df_pos[i].VORP
                     t == IF i > 1 /\ (prev - v) >= gap THEN tier + 1 ELSE tier
                 IN  <<t>> \o scan(i + 1, t, v)
        ts == scan(1, 1, 0)
    IN  [i \in 1..Len(df_pos) |-> WithCol(df_pos[i], "Tier", ts[i])]

\* make_tiers.py make_pos_tiers
make_pos_tiers(df_pos, gap) ==
    LET ts == make_pos_tiers_scan(df_pos, gap, 1, 1, FALSE, 0)
    IN  [i \in 1..Len(df_pos) |-> WithCol(df_pos[i], "Tier", ts[i])]

\* the key of sort_values("VORP", ascending=False)
VorpDesc(t) == [i \in 1..Len(t) |-> <<0 - t[i].VORP>>]

\* the key of sort_values(["pos","Tier","VORP"], ascending=[True, True, False])
PosTierVorp(t) == [i \in 1..Len(t) |-> <<PosOrd(t[i].pos), t[i].Tier, 0 - t[i].VORP>>]

\* make_tiers.py main, from the table read to the table written; ok is FALSE when
\* the run ends in an exception (no position left: the table has no Tier column to sort by)
make_tiers_main(vorp_table, gap) ==
    LET df0 == [i \in 1..Len(vorp_table) |->
                   WithCol(vorp_table[i], "pos", str_strip(str_upper(vorp_table[i].pos)))]
        IsOff(r) == r.pos \in OFF_POS
        df == SelectSeq(df0, IsOff)
        sub(pos) == LET At(r) == r.pos = pos
                        rows == SelectSeq(df, At)
                    IN  sort_values(rows, VorpDesc(rows))
        result_(pos) == IF sub(pos) = <<>> THEN <<>> ELSE make_pos_tiers(sub(pos), gap)
        all == result_("QB") \o result_("RB") \o result_("TE") \o result_("WR")
    IN  IF all = <<>> THEN [ok |-> FALSE, table |-> <<>>]
        ELSE [ok |-> TRUE, table |-> sort_values(all, PosTierVorp(all))]

\* streamlit_draft_app.py normalize_pos
app_normalize_pos(s) == str_upper(str_strip(s))

\* streamlit_draft_app.py make_tiers: the scan of one position's rows
RECURSIVE app_tier_scan(_, _, _, _, _, _)
app_tier_scan(sub, gap, i, tier, hasPrev, prev) ==
    IF i > Len(sub) THEN <<>>
    ELSE LET v == sub[i].VORP
             t == IF hasPrev /\ (prev - v) > gap THEN tier + 1 ELSE tier
         IN  <<t>> \o app_tier_scan(sub, gap, i + 1, t, TRUE, v)

make_tiers_unsorted(df_vorp, gap) ==
    LET df0 == [i \in 1..Len(df_vorp) |->
                   WithCol(df_vorp[i], "pos", app_normalize_pos(df_vorp[i].pos))]
        IsOff(r) == r.pos \in OFF_POS
        df == SelectSeq(df0, IsOff)
        out(p) ==
            LET At(r) == r.pos = p
                sub == SelectSeq(df, At)
                ts == app_tier_scan(sub, gap, 1, 1, FALSE, 0)
            IN  [i \in 1..Len(sub) |-> WithCol(sub[i], "Tier", ts[i])]
        all == out("QB") \o out("RB") \o out("WR") \o out("TE")
    IN  IF all = <<>> THEN df ELSE sort_values(all, PosTierVorp(all))

\* streamlit_draft_app.py make_tiers
make_tiers(df_vorp, gap) ==
    LET df0 == [i \in 1..Len(df_vorp) |->
                   WithCol(df_vorp[i], "pos", app_normalize_pos(df_vorp[i].pos))]
        IsOff(r) == r.pos \in OFF_POS
        df == SelectSeq(df0, IsOff)
        out(p) ==
            LET At(r) == r.pos = p
                rows == SelectSeq(df, At)
                sub == sort_values(rows, VorpDesc(rows))
                ts == app_tier_scan(sub, gap, 1, 1, FALSE, 0)
            IN  [i \in 1..Len(sub) |-> WithCol(sub[i], "Tier", ts[i])]
        all == out("QB") \o out("RB") \o out("WR") \o out("TE")
    IN  IF all = <<>> THEN df ELSE sort_values(all, PosTierVorp(all))

\* ---- the tier stage under study

TierVorps == {0, 1000, 2500}

TierGaps == {-100, 0, 1000}

TierPos == {"QB", " rb ", "K"}

TierRows == [pos : TierPos, VORP : TierVorps]

Named(n, r) == WithCol(r, "player_name", n)

TierTables ==
    UNION {{[i \in 1..n |-> Named(i, f[i])] : f \in [1..n -> TierRows]} : n \in 0..MaxRows}

Idle == [stage |-> "none"]

IdleBoard ==
    /\ now = 0
    /\ players = None /\ fp = None /\ vorp = None /\ tiers = None /\ board = None
    /\ picks_log = <<>>
    /\ tiers_csv = None /\ draft_board_csv = None /\ picks_log_csv = None
    /\ inv = Idle /\ report = Idle

InitTiers ==
    /\ prog = "make_tiers"
    /\ IdleBoard
    /\ call \in {[table |-> t, gap |-> g] : t \in TierTables, g \in TierGaps}
    /\ result = [cli |-> None, app |-> None]

\* python make_tiers.py vorp.csv --gap g
CliMakeTiers ==
    /\ prog = "make_tiers"
    /\ result.cli = None
    /\ result' = [result EXCEPT !.cli = Some(make_tiers_main(call.table, call.gap))]
    /\ UNCHANGED <<prog, call, boardVars>>

\* the application's call make_tiers(vorp, float(tier_gap))
AppMakeTiers ==
    /\ prog = "make_tiers"
    /\ result.app = None
    /\ result' = [result EXCEPT !.app = Some(make_tiers(call.table, call.gap))]
    /\ UNCHANGED <<prog, call, boardVars>>

NextTiers == CliMakeTiers \/ AppMakeTiers

SpecTiers == InitTiers /\ [][NextTiers]_vars

\* the rows of position p of a table, in the table's order
RowsAt(t, p) == LET At(r) == r.pos = p IN SelectSeq(t, At)

\* the tier rule of one position's rows, in the order given
TierRule(rows, g) ==
    /\ \A i \in 1..Len(rows) :
          rows[i].Tier = IF i = 1 THEN 1
                         ELSE IF rows[i - 1].VORP - rows[i].VORP > g
                              THEN rows[i - 1].Tier + 1 ELSE rows[i - 1].Tier
    /\ \A i \in 2..Len(rows) : rows[i - 1].VORP >= rows[i].VORP

\* the rows of the input whose normalised position is p, as a bag of (name, VORP)
InputAt(t, p) ==
    {<<t[i].player_name, t[i].VORP>> : i \in {j \in 1..Len(t) : str_strip(str_upper(t[j].pos)) = p}}

OutputAt(t, p) == {<<t[i].player_name, t[i].VORP>> : i \in {j \in 1..Len(t) : t[j].pos = p}}

ExampleVorp == [i \in 1..5 |-> [player_name |-> i, pos |-> "RB", VORP |-> <<5000, 4500, 3000, 2900, 500>>[i]]]

TiersOf(t) == [i \in 1..Len(t) |-> t[i].Tier]

TierRuleOn(out, in, g) ==
    \A p \in OFF_POS : TierRule(RowsAt(out, p), g) /\ OutputAt(out, p) = InputAt(in, p)

\* C4: in the output of the Tier Segmenter (command line and application), each
\* position's rows are that position's input rows in descending VORP order, the
\* first has tier 1 and each later row has the previous row's tier, plus 1 exactly
\* when the VORP drop from the previous row is greater than the gap (a drop equal
\* to the gap opens no tier); gap 10 on VORPs [50, 45, 30, 29, 5] gives [1, 1, 2, 2, 3].
C4_TierRule ==
    /\ result.cli # None /\ result.cli[1].ok => TierRuleOn(result.cli[1].table, call.table, call.gap)
    /\ result.app # None => TierRuleOn(result.app[1], call.table, call.gap)
    /\ TiersOf(make_pos_tiers(ExampleVorp, 1000)) = <<1, 1, 2, 2, 3>>
    /\ TiersOf(make_tiers_main(ExampleVorp, 1000).table) = <<1, 1, 2, 2, 3>>
    /\ TiersOf(make_tiers(ExampleVorp, 1000)) = <<1, 1, 2, 2, 3>>

\* both programs have tiered a position holding a drop equal to the gap and a larger drop
C4_Witness ==
    /\ result.cli # None /\ result.app # None
    /\ call.gap = 1000
    /\ \E i, j, k \in 1..Len(call.table) :
          /\ call.table[i].pos = " rb " /\ call.table[j].pos = " rb " /\ call.table[k].pos = " rb "
          /\ call.table[i].VORP = 2500 /\ call.table[j].VORP = 1000 /\ call.table[k].VORP = 0
    /\ TiersOf(RowsAt(result.cli[1].table, "RB")) = <<1, 2, 2>>
    /\ TiersOf(RowsAt(result.app[1], "RB")) = <<1, 2, 2>>

TierMonotone(out) ==
    \A i, j \in 1..Len(out) :
        out[i].pos = out[j].pos /\ out[i].VORP > out[j].VORP => out[i].Tier <= out[j].Tier

\* C5: in the output of the Tier Segmenter (command line and application), of two
\* rows of the same position the one with the higher VORP never has the larger tier.
C5_TierMonotone ==
    /\ result.cli # None /\ result.cli[1].ok => TierMonotone(result.cli[1].table)
    /\ result.app # None => TierMonotone(result.app[1])

\* both programs have put two rows of one position into different tiers
C5_Witness ==
    /\ result.cli # None /\ result.app # None
    /\ \E i, j \in 1..Len(result.cli[1].table) :
          /\ result.cli[1].table[i].pos = result.cli[1].table[j].pos
          /\ result.cli[1].table[i].Tier < result.cli[1].table[j].Tier
    /\ \E i, j \in 1..Len(result.app[1]) :
          /\ result.app[1][i].pos = result.app[1][j].pos
          /\ result.app[1][i].Tier < result.app[1][j].Tier

\* ------------------------------------------------------------------ VORP

Max(a, b) == IF a >= b THEN a ELSE b

Min(a, b) == IF a <= b THEN a ELSE b

\* int(round(x)) of Python for x = halves / 2: the nearest integer, a tie going to the even one
py_round_halves(halves) ==
    LET q == halves \div 2
    IN  IF halves % 2 = 0 THEN q ELSE IF q % 2 = 0 THEN q ELSE q + 1

\* compute_vorp.py normalize_pos
vorp_normalize_pos(s) == str_upper(str_strip(s))

get_replacement_points_0based(df_pos, index_1_based) ==
    IF df_pos = <<>> THEN 0
    ELSE df_pos[Max(0, Min(Len(df_pos) - 1, index_1_based)) + 1].fantasy_points

\* compute_vorp.py get_replacement_points
get_replacement_points(df_pos, index_1_based) ==
    IF df_pos = <<>> THEN 0
    ELSE df_pos[Max(0, Min(Len(df_pos) - 1, index_1_based - 1)) + 1].fantasy_points

\* the key of sort_values(["pos","fantasy_points"], ascending=[True, False])
PosFpDesc(t) == [i \in 1..Len(t) |-> <<PosOrd(t[i].pos), 0 - t[i].fantasy_points>>]

\* the key of sort_values(["VORP","fantasy_points"], ascending=[False, False])
VorpFpDesc(t) == [i \in 1..Len(t) |-> <<0 - t[i].VORP, 0 - t[i].fantasy_points>>]

\* compute_vorp.py main: default_rep, from args.teams and args.start_* (in halves)
cli_default_rep(args) == [p \in OFF_POS |-> py_round_halves(args.teams * args.start[p])]

cli_rep_index_truthy(args) ==
    [p \in OFF_POS |->
        IF args.rep[p] # None /\ args.rep[p][1] # 0 THEN args.rep[p][1] ELSE cli_default_rep(args)[p]]

\* compute_vorp.py main: rep_index, an override (args.*_rep) that is not None winning
cli_rep_index(args) ==
    [p \in OFF_POS |-> IF args.rep[p] # None THEN args.rep[p][1] ELSE cli_default_rep(args)[p]]

\* compute_vorp.py main, from the table read to the table written and the lines printed
compute_vorp_main(fp_table, args) ==
    LET df0 == [i \in 1..Len(fp_table) |->
                   WithCol(fp_table[i], "pos", vorp_normalize_pos(fp_table[i].pos))]
        IsOff(r) == r.pos \in OFF_POS
        df1 == SelectSeq(df0, IsOff)
        df == sort_values(df1, PosFpDesc(df1))
        rep_index == cli_rep_index(args)
        sub(p) == LET At(r) == r.pos = p IN SelectSeq(df, At)
        replacement_points == [p \in OFF_POS |-> get_replacement_points(sub(p), rep_index[p])]
        scored == [i \in 1..Len(df) |->
                      WithCol(WithCol(df[i], "replacement_fp", replacement_points[df[i].pos]),
                              "VORP", df[i].fantasy_points - replacement_points[df[i].pos])]
    IN  [table |-> sort_values(scored, VorpFpDesc(scored)),
         rep_index |-> rep_index,
         replacement_points |-> replacement_points]

\* streamlit_draft_app.py compute_replacement_indices; an absent override is None
compute_replacement_indices(teams, start, rep) ==
    LET default == [p \in OFF_POS |-> py_round_halves(teams * start[p])]
    IN  [p \in OFF_POS |-> IF rep[p] # None THEN rep[p][1] ELSE default[p]]

pos_replacement_fp_noclamp(pos_df, rep_index_1based) ==
    IF pos_df = <<>> THEN 0
    ELSE LET idx0 == Min(Len(pos_df) - 1, rep_index_1based - 1)
         IN  pos_df[IF idx0 < 0 THEN Max(1, Len(pos_df) + idx0 + 1) ELSE idx0 + 1].fantasy_points

\* streamlit_draft_app.py pos_replacement_fp
pos_replacement_fp(pos_df, rep_index_1based) ==
    IF pos_df = <<>> THEN 0
    ELSE pos_df[Max(0, Min(Len(pos_df) - 1, rep_index_1based - 1)) + 1].fantasy_points

\* streamlit_draft_app.py add_vorp
add_vorp(df_fp, rep_indices) ==
    LET df0 == [i \in 1..Len(df_fp) |-> WithCol(df_fp[i], "pos", app_normalize_pos(df_fp[i].pos))]
        IsOff(r) == r.pos \in OFF_POS
        df1 == SelectSeq(df0, IsOff)
        df == sort_values(df1, PosFpDesc(df1))
        sub(p) == LET At(r) == r.pos = p IN SelectSeq(df, At)
        repl == [p \in OFF_POS |-> pos_replacement_fp(sub(p), rep_indices[p])]
    IN  [i \in 1..Len(df) |->
            WithCol(WithCol(df[i], "replacement_fp", repl[df[i].pos]),
                    "VORP", df[i].fantasy_points - repl[df[i].pos])]

\* streamlit_draft_app.py run_pipeline: the overrides read from the four number
\* inputs (widget[p] the value of the input), a value of 0 meaning no override
app_overrides(widget) == [p \in OFF_POS |-> IF widget[p] > 0 THEN Some(widget[p]) ELSE None]

\* streamlit_draft_app.py run_pipeline, the VORP step
app_vorp_step(fp_table, teams, start, widget) ==
    LET rep_indices == compute_replacement_indices(teams, start, app_overrides(widget))
    IN  [table |-> add_vorp(fp_table, rep_indices), rep_indices |-> rep_indices]

\* ---- the VORP stage under study

VorpRows ==
    [pos : {"QB", " rb "}, fantasy_points : {-550, 0, 1225}] \cup [pos : {"K"}, fantasy_points : {0}]

VorpTables ==
    UNION {{[i \in 1..n |-> Named(i, f[i])] : f \in [1..n -> VorpRows]} : n \in 0..MaxVorpRows}

FewVorpTables ==
    {<<>>,
     [i \in 1..3 |-> [player_name |-> i, pos |-> <<"QB", "QB", "rb">>[i], fantasy_points |-> <<1225, 0, 300>>[i]]]}

\* the league settings of a call: teams, starters per position in halves, override ranks
Leagues ==
    [teams : {2, 9}, start : [OFF_POS -> {1, 3}], rep : [OFF_POS -> {None, Some(0), Some(2)}]]

FewLeagues ==
    {[teams |-> t, start |-> [QB |-> r[1], RB |-> 3, WR |-> 4, TE |-> 0],
      rep |-> [QB |-> r[2], RB |-> r[3], WR |-> Some(1), TE |-> Some(0)]] :
        t \in {2, 9},
        r \in {<<1, None, None>>, <<1, Some(0), Some(2)>>, <<1, Some(2), Some(4)>>,
               <<1, Some(-1), Some(1)>>, <<0, Some(0), Some(4)>>}}

\* twenty running backs of fantasy points 10.00 .. 200.00, in no particular order
TwentyRBs == [i \in 1..20 |-> [player_name |-> i, pos |-> "RB", fantasy_points |-> 1000 * (((7 * i) % 20) + 1)]]

\* 12 teams starting 1 QB, 2 RB, 2 WR, 1 TE, no override given (on the command
\* line: no --*_rep argument; in the application: the override inputs left at 0)
TwelveTeams(noOverride) ==
    [teams |-> 12, start |-> [QB |-> 2, RB |-> 4, WR |-> 4, TE |-> 2], rep |-> [p \in OFF_POS |-> noOverride]]

Scenarios == {[table |-> TwentyRBs, league |-> TwelveTeams(r)] : r \in {None, Some(0)}}


InitVorp ==
    /\ prog = "compute_vorp"
    /\ IdleBoard
    /\ call \in {[table |-> t, league |-> l] : t \in VorpTables, l \in FewLeagues}
                  \cup {[table |-> t, league |-> l] : t \in FewVorpTables, l \in Leagues}
                  \cup Scenarios
    /\ result = [cli |-> None, app |-> None]

\* python compute_vorp.py fp.csv --teams .. --start_* .. --*_rep ..
CliComputeVorp ==
    /\ prog = "compute_vorp"
    /\ result.cli = None
    /\ result' = [result EXCEPT !.cli = Some(compute_vorp_main(call.table, call.league))]
    /\ UNCHANGED <<prog, call, boardVars>>

\* the values the application's number inputs can hold
WidgetRange(l) ==
    /\ l.teams \in 8..20
    /\ \A p \in OFF_POS : l.start[p] \in 0..10 /\ l.rep[p] # None /\ l.rep[p][1] \in 0..120

\* the application's VORP step on the values of its number inputs
AppComputeVorp ==
    /\ prog = "compute_vorp"
    /\ result.app = None
    /\ WidgetRange(call.league)
    /\ result' = [result EXCEPT !.app =
                     Some(app_vorp_step(call.table, call.league.teams, call.league.start,
                                        [p \in OFF_POS |-> call.league.rep[p][1]]))]
    /\ UNCHANGED <<prog, call, boardVars>>

NextVorp == CliComputeVorp \/ AppComputeVorp

SpecVorp == InitVorp /\ [][NextVorp]_vars

\* the fantasy points of the input rows whose normalised position is p
FpsAt(t, p) == {t[i].fantasy_points : i \in {j \in 1..Len(t) : vorp_normalize_pos(t[j].pos) = p}}

\* the number of input rows whose normalised position is p
CountAt(t, p) == Cardinality({j \in 1..Len(t) : vorp_normalize_pos(t[j].pos) = p})

TopOf(S) == CHOOSE x \in S : \A y \in S : x >= y

LastOf(S) == CHOOSE x \in S : \A y \in S : x <= y

FpDescending(rows) == \A i \in 2..Len(rows) : rows[i - 1].fantasy_points >= rows[i].fantasy_points

ZeroPoint(out, in, rank) ==
    \A p \in OFF_POS :
        LET rows == RowsAt(out, p)
            r == rank[p]
        IN  /\ Len(rows) = CountAt(in, p)
            /\ 1 <= r /\ r <= Len(rows) =>
                  /\ FpDescending(rows)
                  /\ rows[r].VORP = 0
                  /\ \A i \in 1..Len(rows) : (i < r => rows[i].VORP >= 0) /\ (i > r => rows[i].VORP <= 0)

\* C6: in the VORP table of either program, for each position whose replacement
\* rank r lies within 1..(number of players of the position), the position's rows
\* are in descending fantasy-points order, the row at rank r has VORP 0, the rows
\* above it have VORP >= 0 and the rows below it VORP <= 0.
C6_ZeroPoint ==
    /\ result.cli # None => ZeroPoint(result.cli[1].table, call.table, result.cli[1].rep_index)
    /\ result.app # None => ZeroPoint(result.app[1].table, call.table, result.app[1].rep_indices)

\* both programs ranked a position of three players around a replacement rank of 2
C6_Witness ==
    /\ result.cli # None /\ result.app # None
    /\ \E p \in OFF_POS :
          /\ result.cli[1].rep_index[p] = 2 /\ result.app[1].rep_indices[p] = 2
          /\ Len(RowsAt(result.cli[1].table, p)) = 3
          /\ [i \in 1..3 |-> RowsAt(result.cli[1].table, p)[i].VORP] = <<1225, 0, -550>>
          /\ Len(RowsAt(result.app[1].table, p)) = 3
          /\ [i \in 1..3 |-> RowsAt(result.app[1].table, p)[i].VORP] = <<1225, 0, -550>>

\* the baseline the clamp rule gives position p of the input for rank r
ClampedBaseline(in, p, r) ==
    IF FpsAt(in, p) = {} THEN 0
    ELSE IF r <= 1 THEN TopOf(FpsAt(in, p))
    ELSE IF r >= CountAt(in, p) THEN LastOf(FpsAt(in, p))
    ELSE -1

ClampRule(in, rank, base) ==
    \A p \in OFF_POS : (rank[p] <= 1 \/ rank[p] >= CountAt(in, p)) => base[p] = ClampedBaseline(in, p, rank[p])

\* the baseline of each position as the application's VORP table shows it
AppBaseline(out) ==
    [p \in OFF_POS |-> IF RowsAt(out, p) = <<>> THEN 0 ELSE RowsAt(out, p)[1].replacement_fp]

\* C7: the replacement baseline of a position is the top player's fantasy points
\* for a rank of 0 or below (as for rank 1), the last-ranked player's fantasy
\* points for a rank beyond the position's population, and 0 for an empty
\* position, in both programs; 12 teams starting 2 RBs give rank 24, and with 20
\* RBs the baseline is the 20th RB's fantasy points.
C7_ClampBoundary ==
    /\ result.cli # None =>
          ClampRule(call.table, result.cli[1].rep_index, result.cli[1].replacement_points)
    /\ result.app # None =>
          /\ ClampRule(call.table, result.app[1].rep_indices, AppBaseline(result.app[1].table))
          /\ \A i \in 1..Len(result.app[1].table) :
                   result.app[1].table[i].replacement_fp = AppBaseline(result.app[1].table)[result.app[1].table[i].pos]
    /\ \A r \in -2..3 : get_replacement_points(<<>>, r) = 0 /\ pos_replacement_fp(<<>>, r) = 0
    /\ result.cli # None /\ call = [table |-> TwentyRBs, league |-> TwelveTeams(None)] =>
          /\ result.cli[1].rep_index["RB"] = 24
          /\ result.cli[1].replacement_points["RB"] = 1000
    /\ result.app # None /\ call = [table |-> TwentyRBs, league |-> TwelveTeams(Some(0))] =>
          /\ result.app[1].rep_indices["RB"] = 24
          /\ AppBaseline(result.app[1].table)["RB"] = 1000

\* both programs clamped a rank of 0 to the top player of one position and a rank
\* beyond the population to the last player of another, a third position being empty
C7_Witness ==
    /\ result.cli # None /\ result.app # None
    /\ \E p, q, e \in OFF_POS :
          /\ CountAt(call.table, p) >= 2 /\ TopOf(FpsAt(call.table, p)) # LastOf(FpsAt(call.table, p))
          /\ result.cli[1].rep_index[p] = 0 /\ result.app[1].rep_indices[p] = 0
          /\ result.cli[1].replacement_points[p] = TopOf(FpsAt(call.table, p))
          /\ AppBaseline(result.app[1].table)[p] = TopOf(FpsAt(call.table, p))
          /\ CountAt(call.table, q) >= 1
          /\ result.cli[1].rep_index[q] > CountAt(call.table, q)
          /\ result.app[1].rep_indices[q] > CountAt(call.table, q)
          /\ result.cli[1].replacement_points[q] = LastOf(FpsAt(call.table, q))
          /\ AppBaseline(result.app[1].table)[q] = LastOf(FpsAt(call.table, q))
          /\ CountAt(call.table, e) = 0 /\ result.cli[1].replacement_points[e] = 0

\* r is round(halves / 2): the nearest integer, the even one of the two nearest at a tie
IsRound(r, halves) == 2 * r = halves \/ (2 * r - halves \in {-1, 1} /\ r % 2 = 0)

\* C8 (as amended): the rank used for a position is round(teams x starters) when no
\* override is supplied and the override otherwise, where compute_vorp.py takes any
\* integer given on the command line, 0 and negative ranks included, as supplied,
\* and the application takes the value of its override input as supplied only when
\* it is greater than 0 (a value of 0 selects round(teams x starters)).
C8_RankSelection ==
    /\ result.cli # None =>
          \A p \in OFF_POS :
              IF call.league.rep[p] # None
              THEN result.cli[1].rep_index[p] = call.league.rep[p][1]
              ELSE IsRound(result.cli[1].rep_index[p], call.league.teams * call.league.start[p])
    /\ result.app # None =>
          \A p \in OFF_POS :
              IF call.league.rep[p][1] > 0
              THEN result.app[1].rep_indices[p] = call.league.rep[p][1]
              ELSE IsRound(result.app[1].rep_indices[p], call.league.teams * call.league.start[p])

\* C8 (as claimed): every integer the interface accepts as an override, 0 included,
\* is the rank used.
C8_Original ==
    /\ result.cli # None =>
          \A p \in OFF_POS :
              IF call.league.rep[p] # None
              THEN result.cli[1].rep_index[p] = call.league.rep[p][1]
              ELSE IsRound(result.cli[1].rep_index[p], call.league.teams * call.league.start[p])
    /\ result.app # None =>
          \A p \in OFF_POS : result.app[1].rep_indices[p] = call.league.rep[p][1]

\* both programs were given an override of 0 for a position whose default rank is
\* not 0: the command line tool used rank 0, the application the default rank; and
\* a default rank was rounded from a tie (9 teams x 0.5 starters = 4.5 gives 4)
C8_Witness ==
    /\ result.cli # None /\ result.app # None
    /\ \E p \in OFF_POS :
          /\ call.league.rep[p] = Some(0)
          /\ call.league.teams * call.league.start[p] = 9
          /\ result.cli[1].rep_index[p] = 0
          /\ result.app[1].rep_indices[p] = 4
    /\ \E p \in OFF_POS : call.league.rep[p] = Some(2) /\ result.app[1].rep_indices[p] = 2

\* ------------------------------------------------------------------ positions

\* compute_fp.py POS_SYNONYMS.get(x, POS_SYNONYMS.get(x.upper(), x))
pos_synonym(x) ==
    LET syn(y, other) ==
            CASE y \in {"HB", "FB", "TB", "RB/WR", "Rb"} -> "RB"
              [] y \in {"WR/TE", "TE/WR", "WR/RB", "Wr"} -> "WR"
              [] y = "Qb" -> "QB"
              [] y = "Te" -> "TE"
              [] OTHER -> other
    IN  syn(x, syn(str_upper(x), x))

\* compute_fp.py normalize_pos
fp_normalize_pos(s) == str_upper(pos_synonym(str_strip(s)))

\* compute_fp.py infer_pos, on one row of the table
infer_pos(row) ==
    LET pos == str_strip(row.pos)
        empty == pos \in {"", "UNK", "NA", "N/A"}
        inferred0 == fp_normalize_pos(pos)
        idx == empty \/ inferred0 \notin OFF_POS
        qb_mask == row.pass_yds > 0 \/ row.pass_td > 0 \/ row.pass_int > 0
        wr_mask == row.rec > 0 \/ row.rec_yds > 0 \/ row.rec_td > 0
        rb_mask == row.rush_yds > 0 \/ row.rush_td > 0
        inferred1 == IF idx /\ qb_mask THEN "QB" ELSE inferred0
        inferred2 == IF idx /\ ~qb_mask /\ wr_mask THEN "WR" ELSE inferred1
        inferred3 == IF idx /\ ~qb_mask /\ ~wr_mask /\ rb_mask THEN "RB" ELSE inferred2
    IN  inferred3

\* streamlit_draft_app.py infer_pos, on one row of the table
app_infer_pos(row) ==
    LET pos == str_strip(row.pos)
        inferred0 == app_normalize_pos(pos)
        idx == inferred0 = "" \/ inferred0 \notin OFF_POS
        qb_mask == row.pass_yds > 0 \/ row.pass_td > 0 \/ row.pass_int > 0
        wr_mask == row.rec > 0 \/ row.rec_yds > 0 \/ row.rec_td > 0
        rb_mask == row.rush_yds > 0 \/ row.rush_td > 0
        inferred1 == IF idx /\ qb_mask THEN "QB" ELSE inferred0
        inferred2 == IF idx /\ ~qb_mask /\ wr_mask THEN "WR" ELSE inferred1
        inferred3 == IF idx /\ ~qb_mask /\ ~wr_mask /\ rb_mask THEN "RB" ELSE inferred2
    IN  inferred3

\* ---- the position stage under study

DeclaredPos == {"QB", "qb", "Qb", " rb ", "TE", "Wr", "HB", "hb", "wr/te", "K", "", "UNK"}

StatRows ==
    [pos : DeclaredPos,
     pass_yds : {-2, 0, 5}, pass_td : {0, 1}, pass_int : {0, 1},
     rec : {0, 3}, rec_yds : {-4, 0, 7}, rec_td : {0, 1},
     rush_yds : {-3, 0, 9}, rush_td : {0, 1}]

InitPos ==
    /\ prog = "infer_pos"
    /\ IdleBoard
    /\ call \in StatRows
    /\ result = [cli |-> None, app |-> None]

\* compute_fp.py load_data: df["pos"] = infer_pos(df)
CliInferPos ==
    /\ prog = "infer_pos"
    /\ result.cli = None
    /\ result' = [result EXCEPT !.cli = Some(infer_pos(call))]
    /\ UNCHANGED <<prog, call, boardVars>>

\* the application's df["pos"] = infer_pos(df)
AppInferPos ==
    /\ prog = "infer_pos"
    /\ result.app = None
    /\ result' = [result EXCEPT !.app = Some(app_infer_pos(call))]
    /\ UNCHANGED <<prog, call, boardVars>>

NextPos == CliInferPos \/ AppInferPos

SpecPos == InitPos /\ [][NextPos]_vars

\* the position the resolution rule gives a row of normalised position n, a
\* statistic counting when it is greater than 0 (ResolvedPositive) or non-zero
\* (ResolvedNonZero)
ResolvedPositive(n, row) ==
    IF n \in OFF_POS THEN n
    ELSE IF row.pass_yds > 0 \/ row.pass_td > 0 \/ row.pass_int > 0 THEN "QB"
    ELSE IF row.rec > 0 \/ row.rec_yds > 0 \/ row.rec_td > 0 THEN "WR"
    ELSE IF row.rush_yds > 0 \/ row.rush_td > 0 THEN "RB"
    ELSE n

ResolvedNonZero(n, row) ==
    IF n \in OFF_POS THEN n
    ELSE IF row.pass_yds # 0 \/ row.pass_td # 0 \/ row.pass_int # 0 THEN "QB"
    ELSE IF row.rec # 0 \/ row.rec_yds # 0 \/ row.rec_td # 0 THEN "WR"
    ELSE IF row.rush_yds # 0 \/ row.rush_td # 0 THEN "RB"
    ELSE n

\* What both programs do: the resolution rule with a statistic counting only when
\* it is greater than 0.
PositiveResolution ==
    /\ result.cli # None => result.cli[1] = ResolvedPositive(fp_normalize_pos(call.pos), call)
    /\ result.app # None => result.app[1] = ResolvedPositive(app_normalize_pos(call.pos), call)

\* C9: a row whose normalised declared position is one of QB, RB, WR, TE keeps it
\* whatever its statistics; any other row is resolved to QB if one of pass_yds,
\* pass_td, pass_int is non-zero, else to WR if one of rec, rec_yds, rec_td is
\* non-zero, else to RB if one of rush_yds, rush_td is non-zero, else keeps its
\* normalised declared position.
C9_PositionResolution ==
    /\ result.cli # None => result.cli[1] = ResolvedNonZero(fp_normalize_pos(call.pos), call)
    /\ result.app # None => result.app[1] = ResolvedNonZero(app_normalize_pos(call.pos), call)

\* ------------------------------------------------------------------ scoring

\* scoring.get(key, 0.0): the coefficient of a key, in thousandths of a point
get(scoring, key) == IF key \in DOMAIN scoring THEN scoring[key] ELSE 0

\* Series.round(2) of a value in thousandths, in hundredths: the nearest hundredth,
\* a value halfway between two going to the even one
round2(x) ==
    LET q == x \div 10
        r == x % 10
    IN  IF r < 5 THEN q ELSE IF r > 5 THEN q + 1 ELSE IF q % 2 = 0 THEN q ELSE q + 1

compute_points_round1(row, scoring) ==
    LET fp_ == row.pass_yds * get(scoring, "pass_yards")
               + row.pass_td * get(scoring, "pass_td")
               + row.pass_int * get(scoring, "pass_int")
               + row.rush_yds * get(scoring, "rush_yards")
               + row.rush_td * get(scoring, "rush_td")
               + row.rec * get(scoring, "rec")
               + row.rec_yds * get(scoring, "rec_yards")
               + row.rec_td * get(scoring, "rec_td")
    IN  WithCol(row, "fantasy_points", 10 * round2((fp_ + 5) \div 10))

compute_points_combined(row, scoring) ==
    LET fp_ == row.pass_yds * get(scoring, "pass_yards")
               + row.pass_td * get(scoring, "pass_td")
               + row.pass_int * get(scoring, "pass_int")
               + row.rush_yds * get(scoring, "rush_yards")
               + row.rush_td * get(scoring, "rush_td")
               + row.rec * get(scoring, "rec")
               + row.rec_yds * get(scoring, "rec_yards")
               + row.rec_td * get(scoring, "rec_td")
        bonus0 == IF row.rush_yds + row.rec_yds >= 100 THEN get(scoring, "bonus_100_rush_rec_yds") ELSE 0
        bonus1 == bonus0 + (IF row.pass_yds >= 300 THEN get(scoring, "bonus_300_pass_yds") ELSE 0)
    IN  WithCol(row, "fantasy_points", round2(fp_ + bonus1))

\* compute_fp.py compute_points, on one row of the table
compute_points(row, scoring) ==
    LET fp_ == row.pass_yds * get(scoring, "pass_yards")
               + row.pass_td * get(scoring, "pass_td")
               + row.pass_int * get(scoring, "pass_int")
               + row.rush_yds * get(scoring, "rush_yards")
               + row.rush_td * get(scoring, "rush_td")
               + row.rec * get(scoring, "rec")
               + row.rec_yds * get(scoring, "rec_yards")
               + row.rec_td * get(scoring, "rec_td")
        bonus0 == IF get(scoring, "bonus_100_rush_rec_yds") # 0
                  THEN ((IF row.rush_yds >= 100 THEN 1 ELSE 0) + (IF row.rec_yds >= 100 THEN 1 ELSE 0))
                       * scoring["bonus_100_rush_rec_yds"]
                  ELSE 0
        bonus1 == IF get(scoring, "bonus_300_pass_yds") # 0
                  THEN bonus0 + (IF row.pass_yds >= 300 THEN 1 ELSE 0) * scoring["bonus_300_pass_yds"]
                  ELSE bonus0
    IN  WithCol(row, "fantasy_points", round2(fp_ + bonus1))

\* streamlit_draft_app.py fantasy_points, on one row of the (numeric) table
fantasy_points(row, scoring) ==
    LET fp_ == row.pass_yds * get(scoring, "pass_yards")
               + row.pass_td * get(scoring, "pass_td")
               + row.pass_int * get(scoring, "pass_int")
               + row.rush_yds * get(scoring, "rush_yards")
               + row.rush_td * get(scoring, "rush_td")
               + row.rec * get(scoring, "rec")
               + row.rec_yds * get(scoring, "rec_yards")
               + row.rec_td * get(scoring, "rec_td")
        bonus0 == IF get(scoring, "bonus_100_rush_rec_yds") # 0
                  THEN ((IF row.rush_yds >= 100 THEN 1 ELSE 0) + (IF row.rec_yds >= 100 THEN 1 ELSE 0))
                       * scoring["bonus_100_rush_rec_yds"]
                  ELSE 0
        bonus1 == IF get(scoring, "bonus_300_pass_yds") # 0
                  THEN bonus0 + (IF row.pass_yds >= 300 THEN 1 ELSE 0) * scoring["bonus_300_pass_yds"]
                  ELSE bonus0
    IN  WithCol(row, "fantasy_points", round2(fp_ + bonus1))

\* ---- the scoring stage under study

ScoredStats ==
    [pass_yds : {0, 299, 300, 4000}, pass_td : {0, 30}, pass_int : {0, 10},
     rush_yds : {0, 60, 100}, rush_td : {0, 1},
     rec : {0, 3}, rec_yds : {0, 60, 100}, rec_td : {0, 1}]

\* scoring rules, in thousandths: the spec's example (five keys missing), the
\* application's default, one with both bonuses, one with coefficients below a cent
ScoringRules ==
    {[pass_yards |-> 40, pass_td |-> 4000, pass_int |-> -2000],
     [pass_yards |-> 40, pass_td |-> 4000, pass_int |-> -2000, rush_yards |-> 100, rush_td |-> 6000,
      rec |-> 1000, rec_yards |-> 100, rec_td |-> 6000,
      bonus_100_rush_rec_yds |-> 0, bonus_300_pass_yds |-> 0],
     [pass_yards |-> 40, rush_yards |-> 100, rec_yards |-> 100,
      bonus_100_rush_rec_yds |-> 3000, bonus_300_pass_yds |-> 2000],
     [pass_yards |-> 25, rush_td |-> 5, rec |-> 5, rec_td |-> -15, bonus_100_rush_rec_yds |-> 5]}

InitScore ==
    /\ prog = "compute_fp"
    /\ IdleBoard
    /\ call \in [row : ScoredStats, scoring : ScoringRules]
    /\ result = [cli |-> None, app |-> None]

\* compute_fp.py main: compute_points(df, scoring)
CliComputePoints ==
    /\ prog = "compute_fp"
    /\ result.cli = None
    /\ result' = [result EXCEPT !.cli = Some(compute_points(call.row, call.scoring))]
    /\ UNCHANGED <<prog, call, boardVars>>

\* the application's fantasy_points(filtered, scoring)
AppFantasyPoints ==
    /\ prog = "compute_fp"
    /\ result.app = None
    /\ result' = [result EXCEPT !.app = Some(fantasy_points(call.row, call.scoring))]
    /\ UNCHANGED <<prog, call, boardVars>>

NextScore == CliComputePoints \/ AppFantasyPoints

SpecScore == InitScore /\ [][NextScore]_vars

\* the eight categories: the statistic and the key of its coefficient
Categories ==
    <<<<"pass_yds", "pass_yards">>, <<"pass_td", "pass_td">>, <<"pass_int", "pass_int">>,
      <<"rush_yds", "rush_yards">>, <<"rush_td", "rush_td">>,
      <<"rec", "rec">>, <<"rec_yds", "rec_yards">>, <<"rec_td", "rec_td">>>>

RECURSIVE LinearPoints(_, _, _)
LinearPoints(row, scoring, k) ==
    IF k = 0 THEN 0
    ELSE LinearPoints(row, scoring, k - 1)
         + row[Categories[k][1]]
           * (IF Categories[k][2] \in DOMAIN scoring THEN scoring[Categories[k][2]] ELSE 0)

BonusPoints(row, scoring) ==
    LET b100 == IF "bonus_100_rush_rec_yds" \in DOMAIN scoring THEN scoring["bonus_100_rush_rec_yds"] ELSE 0
        b300 == IF "bonus_300_pass_yds" \in DOMAIN scoring THEN scoring["bonus_300_pass_yds"] ELSE 0
    IN  (IF row.rush_yds >= 100 THEN b100 ELSE 0) + (IF row.rec_yds >= 100 THEN b100 ELSE 0)
        + (IF row.pass_yds >= 300 THEN b300 ELSE 0)

\* h hundredths is x thousandths rounded to two decimals (a tie going to the even hundredth)
IsRounded2(h, x) == 10 * h - x \in -5..5 /\ (10 * h - x \in {-5, 5} => h % 2 = 0)

ExampleStats ==
    [pass_yds |-> 4000, pass_td |-> 30, pass_int |-> 10, rush_yds |-> 0, rush_td |-> 0,
     rec |-> 0, rec_yds |-> 0, rec_td |-> 0]

ExampleScoring == [pass_yards |-> 40, pass_td |-> 4000, pass_int |-> -2000]

\* C10: the fantasy points of a row are the sum over the eight categories of
\* statistic x coefficient (a missing coefficient counting as 0), plus the 100-yard
\* bonus once for rush_yds >= 100 and once more for rec_yds >= 100, plus the
\* 300-yard bonus for pass_yds >= 300, rounded once at the end to two decimals, in
\* both programs; 4000 passing yards, 30 touchdowns and 10 interceptions under
\* {pass_yards 0.04, pass_td 4, pass_int -2} give 260.00.
C10_FantasyPoints ==
    LET exact == LinearPoints(call.row, call.scoring, 8) + BonusPoints(call.row, call.scoring)
    IN  /\ result.cli # None =>
              /\ IsRounded2(result.cli[1].fantasy_points, exact)
              /\ call = [row |-> ExampleStats, scoring |-> ExampleScoring] =>
                    result.cli[1].fantasy_points = 26000
        /\ result.app # None =>
              /\ IsRounded2(result.app[1].fantasy_points, exact)
              /\ call = [row |-> ExampleStats, scoring |-> ExampleScoring] =>
                    result.app[1].fantasy_points = 26000

\* both programs scored a row with 60 rushing and 100 receiving yards and 300
\* passing yards under the rule with both bonuses: one 100-yard bonus, one 300-yard
\* bonus (12 + 6 + 10 + 3 + 2 = 33.00)
C10_Witness ==
    /\ call.row = [pass_yds |-> 300, pass_td |-> 0, pass_int |-> 0, rush_yds |-> 60, rush_td |-> 0,
                   rec |-> 0, rec_yds |-> 100, rec_td |-> 0]
    /\ "bonus_300_pass_yds" \in DOMAIN call.scoring /\ call.scoring["bonus_300_pass_yds"] = 2000
    /\ result.cli # None /\ result.cli[1].fantasy_points = 3300
    /\ result.app # None /\ result.app[1].fantasy_points = 3300

\* ------------------------------------------------------------------ the application's pipeline

\* a DataFrame: its columns and its rows (a row a function of the columns); the
\* columns of an empty table are the ones given
Frame(rows, emptyColumns) ==
    [columns |-> IF rows = <<>> THEN emptyColumns ELSE DOMAIN rows[1], rows |-> rows]

STANDARD_COLS ==
    <<"player_name", "team", "pos", "pass_yds", "pass_td", "pass_int",
      "rush_yds", "rush_td", "rec", "rec_yds", "rec_td">>

NUMERIC_COLS == {"pass_yds", "pass_td", "pass_int", "rush_yds", "rush_td", "rec", "rec_yds", "rec_td"}

\* streamlit_draft_app.py AUTO_MAP, in the order of its keys
AUTO_MAP ==
    <<<<"player_name", <<"player", "name", "player name", "full_name", "fullname", "player_name">>>>,
      <<"team", <<"team", "nfl team", "pro_team", "pro team", "proteam", "tm">>>>,
      <<"pos", <<"pos", "position", "player position">>>>,
      <<"pass_yds", <<"pass_yds", "pass yds", "pass yards", "passyds", "passyards", "py", "passingyards", "yds (pass)", "yds">>>>,
      <<"pass_td", <<"pass_td", "pass tds", "pass touchdowns", "pass td", "ptd", "passingtd", "tds (pass)", "tds">>>>,
      <<"pass_int", <<"int", "ints", "interceptions", "pass_int", "pass int", "interception", "ints (pass)">>>>,
      <<"rush_yds", <<"rush_yds", "rush yds", "rush yards", "rushyards", "ry", "rushingyards", "yds (rush)", "yds.1">>>>,
      <<"rush_td", <<"rush_td", "rush tds", "rush touchdowns", "rtd", "rushingtd", "tds (rush)", "tds.1">>>>,
      <<"rec", <<"rec", "receptions", "catches", "recs">>>>,
      <<"rec_yds", <<"rec_yds", "rec yds", "rec yards", "receivingyards", "ryds", "receiving yds">>>>,
      <<"rec_td", <<"rec_td", "rec tds", "receiving touchdowns", "rctd", "receivingtd">>>>>>

\* streamlit_draft_app.py guess_mapping: lower_cols, the column of each lower-cased
\* name (cols in the order of the table, the last column of a name winning)
lower_cols(cols) ==
    [v \in {str_lower(cols[i]) : i \in 1..Len(cols)} |->
        cols[CHOOSE i \in 1..Len(cols) :
                 /\ str_lower(cols[i]) = v
                 /\ \A j \in (i + 1)..Len(cols) : str_lower(cols[j]) # v]]

\* streamlit_draft_app.py guess_mapping: the loop over AUTO_MAP from its k-th entry
\* on, mapping the source columns chosen so far to their standard names
RECURSIVE guess_mapping_from(_, _, _)
guess_mapping_from(cols, k, mapping) ==
    IF k > Len(AUTO_MAP) THEN mapping
    ELSE LET std == AUTO_MAP[k][1]
             variants == AUTO_MAP[k][2]
             lc == lower_cols(cols)
             hits == {n \in 1..Len(variants) : variants[n] \in DOMAIN lc /\ lc[variants[n]] \notin DOMAIN mapping}
         IN  IF hits = {} THEN guess_mapping_from(cols, k + 1, mapping)
             ELSE LET n == CHOOSE m \in hits : \A o \in hits : m <= o
                      src == lc[variants[n]]
                  IN  guess_mapping_from(cols, k + 1, [c \in DOMAIN mapping \cup {src} |-> IF c = src THEN std ELSE mapping[c]])

\* streamlit_draft_app.py guess_mapping
guess_mapping(cols) == guess_mapping_from(cols, 1, <<>>)

\* DataFrame.rename(columns=mapping) of one row
rename(row, mapping) ==
    LET new(c) == IF c \in DOMAIN mapping THEN mapping[c] ELSE c
    IN  [d \in {new(c) : c \in DOMAIN row} |-> row[CHOOSE c \in DOMAIN row : new(c) = d]]

\* coerce_numeric on one cell: the text without commas and blanks, the blank tokens
\* and whatever is no number becoming 0
coerce_cell(text) ==
    CASE text = "4,000" -> 4000
      [] text = "3800" -> 3800
      [] text = "1,200" -> 1200
      [] text = "800" -> 800
      [] text = "600" -> 600
      [] text = "500" -> 500
      [] text = "250" -> 250
      [] text = "60" -> 60
      [] text = "30" -> 30
      [] text = "25" -> 25
      [] text = "10" -> 10
      [] text = "9" -> 9
      [] text = "8" -> 8
      [] text = "6" -> 6
      [] text = "5" -> 5
      [] text = " 2 " -> 2
      [] text = "-3" -> -3
      [] OTHER -> 0

\* streamlit_draft_app.py coerce_numeric, on one row
coerce_numeric(row, cols) == [c \in DOMAIN row |-> IF c \in cols THEN coerce_cell(row[c]) ELSE row[c]]

\* the key of sort_values("fantasy_points", ascending=False)
FpDesc(t) == [i \in 1..Len(t) |-> <<0 - t[i].fantasy_points>>]

\* json.loads(scoring_text): the text is <<"json", rule>>, a JSON document of the
\* rule, or anything else, on which json.loads raises (None)
json_loads(text) == IF text[1] = "json" THEN Some(text[2]) ELSE None

\* the elements of a sequence
Range(seq) == {seq[i] : i \in 1..Len(seq)}

\* streamlit_draft_app.py run_pipeline, import and normalize: the columns renamed
\* by the guessed mapping, the missing standard columns added as 0, the numeric
\* columns coerced
app_normalize(rows, mapping) ==
    [i \in 1..Len(rows) |->
        LET row == rename(rows[i], mapping)
            full == [c \in DOMAIN row \cup Range(STANDARD_COLS) |-> IF c \in DOMAIN row THEN row[c] ELSE "0"]
        IN  coerce_numeric(full, NUMERIC_COLS)]

\* streamlit_draft_app.py run_pipeline: "if add_pos_qb: df['pos'] = 'QB'", then
\* df["pos"] = infer_pos(df)
app_positions(df, add_pos_qb) ==
    [i \in 1..Len(df) |->
        LET row == IF add_pos_qb THEN WithCol(df[i], "pos", "QB") ELSE df[i]
        IN  WithCol(row, "pos", app_infer_pos(row))]

\* streamlit_draft_app.py run_pipeline: the offensive rows, or every row when
\* there is none
app_filter(df) ==
    LET IsOff(r) == r.pos \in OFF_POS
    IN  IF SelectSeq(df, IsOff) = <<>> THEN df ELSE SelectSeq(df, IsOff)

\* streamlit_draft_app.py run_pipeline: fantasy_points(filtered, scoring), sorted
app_fp(filtered, scoring) ==
    LET scored(t) == [i \in 1..Len(t) |-> fantasy_points(t[i], scoring)]
        sorted(t) == sort_values(t, FpDesc(t))
    IN  sorted(scored(filtered))

\* streamlit_draft_app.py run_pipeline, from the fantasy points on: the tables stored
app_tables(filtered, fp_, league, tier_gap, cols) ==
    LET tiered(vorp_) ==
            [ok |-> TRUE,
             players |-> Frame(filtered, cols),
             fp |-> Frame(fp_, cols \cup {"fantasy_points"}),
             vorp |-> Frame(vorp_, cols \cup {"fantasy_points", "replacement_fp", "VORP"}),
             tiers |-> Frame(make_tiers(vorp_, tier_gap), cols \cup {"fantasy_points", "replacement_fp", "VORP"})]
    IN  tiered(app_vorp_step(fp_, league.teams, league.start, league.rep).table)

\* streamlit_draft_app.py run_pipeline, from the table read to the tables stored,
\* no mapping file being uploaded (mapping_json is None); ok is FALSE when the
\* run stops at the scoring text, which it reads with the filtered table made
\* and before storing anything
run_pipeline_tables(df_raw, add_pos_qb, scoring_text, league, tier_gap) ==
    LET mapping == guess_mapping(df_raw.columns)
        cols == {IF c \in DOMAIN mapping THEN mapping[c] ELSE c : c \in Range(df_raw.columns)}
                    \cup Range(STANDARD_COLS)
        scoring == json_loads(scoring_text)
        from_filtered(filtered) ==
            LET from_fp(fp_) == app_tables(filtered, fp_, league, tier_gap, cols)
            IN  from_fp(app_fp(filtered, scoring[1]))
        halted(filtered) == [ok |-> FALSE, filtered |-> Frame(filtered, cols)]
    IN  IF scoring = None
        THEN halted(app_filter(app_positions(app_normalize(df_raw.rows, mapping), add_pos_qb)))
        ELSE from_filtered(app_filter(app_positions(app_normalize(df_raw.rows, mapping), add_pos_qb)))

RawColumns == <<"Player", "Team", "POS", "YDS", "TDS", "INTS", "YDS.1", "TDS.1", "REC", "rec_yds", "rec_td">>

RawRow(cells) == [c \in {RawColumns[i] : i \in 1..Len(RawColumns)} |-> cells[CHOOSE i \in 1..Len(RawColumns) : RawColumns[i] = c]]

\* projections a user uploads: four players, two of them sharing a name up to case;
\* and a table of one kicker without any statistic
RawTables ==
    {[columns |-> RawColumns,
      rows |-> <<RawRow(<<"Josh Allen", "BUF", "QB", "4,000", "30", "10", "500", "6", "", "", "-">>),
                 RawRow(<<"JOSH ALLEN", "JAX", " wr", "", "", "", "", "", "60", "800", "5">>),
                 RawRow(<<"Jalen Hurts", "PHI", "qb", "3800", "25", "8", "600", "10", "NA", "0", "0">>),
                 RawRow(<<"Josh", "LV", "", "0", "0", "0", "1,200", "9", "30", "250", " 2 ">>)>>],
     [columns |-> <<"name", "pos">>, rows |-> <<[name |-> "Zed", pos |-> "K"]>>]}

\* the application's default scoring rule, in thousandths
scoring_default ==
    [pass_yards |-> 40, pass_td |-> 4000, pass_int |-> -2000, rush_yards |-> 100, rush_td |-> 6000,
     rec |-> 1000, rec_yards |-> 100, rec_td |-> 6000,
     bonus_100_rush_rec_yds |-> 0, bonus_300_pass_yds |-> 0]

\* the sidebar's league inputs left at their defaults, the starters in halves
SidebarLeague ==
    [teams |-> 12, start |-> [QB |-> 2, RB |-> 4, WR |-> 4, TE |-> 2], rep |-> [p \in OFF_POS |-> 0]]

\* ------------------------------------------------------------------ the draft board

\* the picks log holds at most MaxLog entries and the clock reads at most MaxClock;
\* now is the time of the last reading of the clock (datetime.now() in a removal)
MaxLog == 3

MaxClock == 1

\* ---- the application's session (st.session_state)

Session ==
    [players |-> players, fp |-> fp, vorp |-> vorp, tiers |-> tiers, board |-> board, picks_log |-> picks_log]

\* the run storing the filtered table before it reads the scoring text
run_pipeline_stores_first(s, upload, out) ==
    IF upload = None
    THEN [session |-> s, stages |-> <<>>,
          report |-> [kind |-> "error", text |-> "Please upload a projections CSV."]]
    ELSE     IF ~out.ok
             THEN [session |-> [s EXCEPT !.players = Some(out.filtered)],
                   stages |-> <<"normalization", "position resolution">>,
                   report |-> [kind |-> "error", text |-> "Invalid scoring JSON"]]
             ELSE [session |-> [s EXCEPT !.players = Some(out.players), !.fp = Some(out.fp),
                                          !.vorp = Some(out.vorp), !.tiers = Some(out.tiers),
                                          !.board = None],
                   stages |-> <<"normalization", "position resolution", "scoring", "VORP", "tiering">>,
                   report |-> [kind |-> "success", text |-> "Pipeline complete! See tabs below."]]

run_pipeline_autoinit(s, upload, out) ==
    IF upload = None
    THEN [session |-> s, stages |-> <<>>,
          report |-> [kind |-> "error", text |-> "Please upload a projections CSV."]]
    ELSE     IF ~out.ok
             THEN [session |-> s, stages |-> <<"normalization", "position resolution">>,
                   report |-> [kind |-> "error", text |-> "Invalid scoring JSON"]]
             ELSE [session |-> [s EXCEPT !.players = Some(out.players), !.fp = Some(out.fp),
                                          !.vorp = Some(out.vorp), !.tiers = Some(out.tiers),
                                          !.board = Some(out.tiers)],
                   stages |-> <<"normalization", "position resolution", "scoring", "VORP", "tiering">>,
                   report |-> [kind |-> "success", text |-> "Pipeline complete! See tabs below."]]

\* streamlit_draft_app.py "if run_pipeline:": the session after the click, the
\* stages the run went through and the message shown; upload is None when no
\* projections file is chosen, and out is what run_pipeline_tables makes of the
\* upload and the sidebar's inputs
run_pipeline(s, upload, out) ==
    IF upload = None
    THEN [session |-> s, stages |-> <<>>,
          report |-> [kind |-> "error", text |-> "Please upload a projections CSV."]]
    ELSE     IF ~out.ok
             THEN [session |-> s, stages |-> <<"normalization", "position resolution">>,
                   report |-> [kind |-> "error", text |-> "Invalid scoring JSON"]]
             ELSE [session |-> [s EXCEPT !.players = Some(out.players), !.fp = Some(out.fp),
                                          !.vorp = Some(out.vorp), !.tiers = Some(out.tiers),
                                          !.board = None],
                   stages |-> <<"normalization", "position resolution", "scoring", "VORP", "tiering">>,
                   report |-> [kind |-> "success", text |-> "Pipeline complete! See tabs below."]]

\* the board table can be shown: st.dataframe(board[["player_name", "team", "pos",
\* "Tier", "VORP"]]) raises KeyError on a table without these columns
board_shows(b) == {"player_name", "team", "pos", "Tier", "VORP"} \subseteq b.columns

\* streamlit_draft_app.py "if init_board and st.session_state.tiers is not None:"
init_board_click(s) ==
    IF s.tiers = None
    THEN [session |-> s, report |-> [kind |-> "info", text |-> "Click 'Initialize Draft Board from Tiers' in the sidebar."]]
    ELSE [session |-> [s EXCEPT !.board = s.tiers],
          report |-> IF board_shows(s.tiers[1])
                     THEN [kind |-> "success", text |-> "Draft board initialized from tiers."]
                     ELSE [kind |-> "exception", text |-> "KeyError"]]

\* names.strip() is empty; names is the text as the pieces between its commas
names_blank(names) == Len(names) = 1 /\ str_strip(names[1]) = ""

\* streamlit_draft_app.py targets: [n.strip().lower() for n in names.split(",") if n.strip()]
app_targets(names) ==
    LET NonBlank(n) == str_strip(n) # ""
        kept == SelectSeq(names, NonBlank)
    IN  [k \in 1..Len(kept) |-> str_lower(str_strip(kept[k]))]

\* the handler logging every removed record twice
remove_selected_twice(s, names, at) ==
    LET df == s.board[1].rows
        targets == Range(app_targets(names))
        mask(r) == str_strip(str_lower(r.player_name)) \in targets
        unmasked(r) == ~mask(r)
        removed == SelectSeq(df, mask)
        stamped == [i \in 1..Len(removed) |-> WithCol(removed[i], "removed_at", at)]
    IN  IF removed # <<>>
        THEN [session |-> [s EXCEPT !.board = Some([s.board[1] EXCEPT !.rows = SelectSeq(df, unmasked)]),
                                    !.picks_log = s.picks_log \o stamped \o stamped],
              report |-> [kind |-> "success", removed |-> Len(removed)]]
        ELSE [session |-> [s EXCEPT !.board = Some([s.board[1] EXCEPT !.rows = SelectSeq(df, unmasked)])],
              report |-> [kind |-> "warning", text |-> "No matching players found. Check spelling."]]

\* the handler logging only the first of the records that share a name
remove_selected_first(s, names, at) ==
    LET df == s.board[1].rows
        targets == Range(app_targets(names))
        mask(r) == str_strip(str_lower(r.player_name)) \in targets
        unmasked(r) == ~mask(r)
        removed == SelectSeq(df, mask)
        stamped == IF removed = <<>> THEN <<>> ELSE <<WithCol(removed[1], "removed_at", at)>>
    IN  IF removed # <<>>
        THEN [session |-> [s EXCEPT !.board = Some([s.board[1] EXCEPT !.rows = SelectSeq(df, unmasked)]),
                                    !.picks_log = s.picks_log \o stamped],
              report |-> [kind |-> "success", removed |-> Len(removed)]]
        ELSE [session |-> [s EXCEPT !.board = Some([s.board[1] EXCEPT !.rows = SelectSeq(df, unmasked)])],
              report |-> [kind |-> "warning", text |-> "No matching players found. Check spelling."]]

remove_selected_keep(s, names, at) ==
    LET df == s.board[1].rows
        targets == Range(app_targets(names))
        mask(r) == str_strip(str_lower(r.player_name)) \in targets
        removed == SelectSeq(df, mask)
        stamped == [i \in 1..Len(removed) |-> WithCol(removed[i], "removed_at", at)]
    IN  IF removed # <<>>
        THEN [session |-> [s EXCEPT !.picks_log = s.picks_log \o stamped],
              report |-> [kind |-> "success", removed |-> Len(removed)]]
        ELSE [session |-> s,
              report |-> [kind |-> "warning", text |-> "No matching players found. Check spelling."]]

\* streamlit_draft_app.py "if remove_btn and names.strip():", at the time at
remove_selected(s, names, at) ==
    LET df == s.board[1].rows
        targets == Range(app_targets(names))
        mask(r) == str_strip(str_lower(r.player_name)) \in targets
        unmasked(r) == ~mask(r)
        removed == SelectSeq(df, mask)
        stamped == [i \in 1..Len(removed) |-> WithCol(removed[i], "removed_at", at)]
    IN  IF removed # <<>>
        THEN [session |-> [s EXCEPT !.board = Some([s.board[1] EXCEPT !.rows = SelectSeq(df, unmasked)]),
                                    !.picks_log = s.picks_log \o stamped],
              report |-> [kind |-> "success", removed |-> Len(removed)]]
        ELSE [session |-> [s EXCEPT !.board = Some([s.board[1] EXCEPT !.rows = SelectSeq(df, unmasked)])],
              report |-> [kind |-> "warning", text |-> "No matching players found. Check spelling."]]

\* ---- remove_players.py on the files of its directory

\* remove_players.py to_remove: the non-blank pieces of --names, stripped
to_remove(names) ==
    LET NonBlank(n) == str_strip(n) # ""
        kept == SelectSeq(names, NonBlank)
    IN  [k \in 1..Len(kept) |-> str_strip(kept[k])]

\* remove_players.py norm_remove: [n.lower().strip() for n in to_remove]
norm_remove(names) == [k \in 1..Len(to_remove(names)) |-> str_strip(str_lower(to_remove(names)[k]))]

\* remove_players.py normalize_names
normalize_names(s) == str_lower(str_strip(s))

remove_players_overwrite(df, log, names, at) ==
    LET norm == norm_remove(names)
        found_mask(r) == normalize_names(r.player_name) \in Range(norm)
        not_found(r) == ~found_mask(r)
        removed == SelectSeq(df.rows, found_mask)
        remaining == SelectSeq(df.rows, not_found)
        on_board == {normalize_names(df.rows[i].player_name) : i \in 1..Len(df.rows)}
        IsMissing(n) == n \notin on_board
        missing == SelectSeq(norm, IsMissing)
        stamped == [i \in 1..Len(removed) |-> WithCol(removed[i], "removed_at", at)]
    IN  IF to_remove(names) = <<>>
        THEN [draft_board |-> None, picks_log |-> None,
              report |-> [kind |-> "No names provided; nothing to remove."]]
        ELSE [draft_board |-> Some([df EXCEPT !.rows = remaining]),
              picks_log |-> IF removed = <<>> THEN None ELSE Some(stamped),
              report |-> [kind |-> "done", removed |-> removed, missing |-> missing]]

\* remove_players.py main on the board read (df), the picks log found (None when
\* the file does not exist) and the names given, at the time at: the files it
\* writes (None: the file is left as it is) and what it prints; the _norm_name
\* column lives only inside the run and is in neither file
remove_players_main(df, log, names, at) ==
    LET norm == norm_remove(names)
        found_mask(r) == normalize_names(r.player_name) \in Range(norm)
        not_found(r) == ~found_mask(r)
        removed == SelectSeq(df.rows, found_mask)
        remaining == SelectSeq(df.rows, not_found)
        on_board == {normalize_names(df.rows[i].player_name) : i \in 1..Len(df.rows)}
        IsMissing(n) == n \notin on_board
        missing == SelectSeq(norm, IsMissing)
        stamped == [i \in 1..Len(removed) |-> WithCol(removed[i], "removed_at", at)]
    IN  IF to_remove(names) = <<>>
        THEN [draft_board |-> None, picks_log |-> None,
              report |-> [kind |-> "No names provided; nothing to remove."]]
        ELSE [draft_board |-> Some([df EXCEPT !.rows = remaining]),
              picks_log |-> IF removed = <<>> THEN None
                            ELSE IF log # None THEN Some(log[1] \o stamped)
                            ELSE Some(stamped),
              report |-> [kind |-> "done", removed |-> removed, missing |-> missing]]

\* compute_fp.py main: load_data, compute_points and the sort, on the rows of
\* players.csv
compute_fp_main(players_rows, scoring) ==
    LET std == Range(STANDARD_COLS)
        df1 == [i \in 1..Len(players_rows) |->
                   [c \in DOMAIN players_rows[i] \cup std |->
                       IF c \in DOMAIN players_rows[i] THEN players_rows[i][c] ELSE "0"]]
        df2 == [i \in 1..Len(df1) |-> coerce_numeric(df1[i], NUMERIC_COLS)]
        df == [i \in 1..Len(df2) |-> WithCol(df2[i], "pos", infer_pos(df2[i]))]
        IsOff(r) == r.pos \in OFF_POS
        filtered == IF SelectSeq(df, IsOff) = <<>> THEN df ELSE SelectSeq(df, IsOff)
        out == [i \in 1..Len(filtered) |-> compute_points(filtered[i], scoring)]
    IN  sort_values(out, FpDesc(out))

\* the tiers_output.csv that compute_fp.py, compute_vorp.py and make_tiers.py
\* leave, run one after the other
tiers_output(players_rows, scoring, args, gap) ==
    make_tiers_main(compute_vorp_main(compute_fp_main(players_rows, scoring), args).table, gap)

\* ---- the draft under study

\* the names a user types, as the pieces between the commas
NameTexts == {<<" josh allen ">>, <<"Josh">>, <<"Zed">>, <<"Jalen Hurts", "Zed">>, <<" ", "JOSH ALLEN">>, <<" ">>}

ScoringTexts == {<<"json", scoring_default>>, <<"{">>}

\* what the user gives the pipeline: no file, or a file of RawTables with a
\* scoring text; the "treat as QB data" box is ticked only for the kicker's file
PipelineInputs ==
    {[upload |-> None, add_pos_qb |-> FALSE, scoring_text |-> <<"json", scoring_default>>]}
        \cup {in \in [upload : {Some(t) : t \in RawTables}, add_pos_qb : BOOLEAN, scoring_text : ScoringTexts] :
                 in.add_pos_qb => Len(in.upload[1].rows) = 1}

\* the tier gap input at its default, in hundredths
TierGapDefault == 1000

\* the pipeline's tables on every upload and sidebar input under study
PipelineRuns ==
    [u \in RawTables, q \in BOOLEAN, t \in ScoringTexts |->
        run_pipeline_tables(u, q, t, SidebarLeague, TierGapDefault)]

\* the players.csv of the command-line run: the four players under the standard headers
PlayersCsv ==
    LET raw == CHOOSE t \in RawTables : Len(t.rows) = 4
    IN  [i \in 1..Len(raw.rows) |-> rename(raw.rows[i], guess_mapping(raw.columns))]

TiersOutputs ==
    {tiers_output(PlayersCsv, scoring_default, TwelveTeams(r), TierGapDefault) : r \in {None, Some(1)}}

Init ==
    /\ prog \in {"app", "cli"}
    /\ call = Idle
    /\ result = [cli |-> None, app |-> None]
    /\ now = 0
    /\ players = None /\ fp = None /\ vorp = None /\ tiers = None /\ board = None
    /\ picks_log = <<>>
    /\ tiers_csv \in IF prog = "cli"
                     THEN {Some(Frame(o.table, {})) : o \in {x \in TiersOutputs : x.ok}}
                     ELSE {None}
    /\ draft_board_csv = None
    /\ picks_log_csv = None
    /\ inv = [op |-> "none"]
    /\ report = [kind |-> "none"]

\* the session after a handler
Store(s) ==
    /\ players' = s.players
    /\ fp' = s.fp
    /\ vorp' = s.vorp
    /\ tiers' = s.tiers
    /\ board' = s.board
    /\ picks_log' = s.picks_log

\* a click on "Run Pipeline"
RunPipeline ==
    /\ prog = "app"
    /\ \E in \in PipelineInputs :
          LET tables == IF in.upload = None THEN [ok |-> FALSE]
                        ELSE PipelineRuns[in.upload[1], in.add_pos_qb, in.scoring_text]
              out == run_pipeline(Session, in.upload, tables)
          IN  /\ Store(out.session)
              /\ report' = out.report
              /\ inv' = [op |-> "run_pipeline", stages |-> out.stages]
    /\ UNCHANGED <<now, prog, call, result, fileVars>>

\* a click on "Initialize Draft Board from Tiers"
InitBoard ==
    /\ prog = "app"
    /\ LET out == init_board_click(Session)
       IN  /\ Store(out.session)
           /\ report' = out.report
           /\ inv' = [op |-> "init_board"]
    /\ UNCHANGED <<now, prog, call, result, fileVars>>

\* a click on "Remove Selected", the names text not blank
RemoveSelected ==
    /\ prog = "app"
    /\ board # None
    /\ board_shows(board[1])
    /\ \E names \in NameTexts, at \in now..MaxClock :
          LET out == remove_selected(Session, names, at)
          IN  /\ ~names_blank(names)
              /\ Len(out.session.picks_log) <= MaxLog
              /\ Store(out.session)
              /\ report' = out.report
              /\ inv' = [op |-> "remove", names |-> names]
              /\ now' = at
    /\ UNCHANGED <<prog, call, result, fileVars>>

\* any other rerun of the script with a board ("Suggest Picks from Current Board",
\* a changed input, "Remove Selected" on a blank text): the suggestions are shown
Suggest ==
    /\ prog = "app"
    /\ board # None
    /\ report' = IF board_shows(board[1]) THEN [kind |-> "suggestions"]
                 ELSE [kind |-> "exception", text |-> "KeyError"]
    /\ inv' = [op |-> "suggest"]
    /\ UNCHANGED <<now, prog, call, result, sessionVars, fileVars>>

\* python remove_players.py BOARD_CSV --names ..
RemovePlayers ==
    /\ prog = "cli"
    /\ \E board_csv \in {"tiers_output.csv", "draft_board.csv"},
          names \in NameTexts \cup {<<"">>}, at \in now..MaxClock :
          LET file == IF board_csv = "tiers_output.csv" THEN tiers_csv ELSE draft_board_csv
          IN  /\ inv' = [op |-> "remove", board_csv |-> board_csv, names |-> names]
              /\ now' = at
              /\ IF file = None
                 THEN /\ report' = [kind |-> "FileNotFoundError"]
                      /\ UNCHANGED <<draft_board_csv, picks_log_csv>>
                 ELSE LET out == remove_players_main(file[1], picks_log_csv, names, at)
                      IN  /\ out.picks_log # None => Len(out.picks_log[1]) <= MaxLog
                          /\ report' = out.report
                          /\ draft_board_csv' = IF out.draft_board = None THEN draft_board_csv
                                                ELSE out.draft_board
                          /\ picks_log_csv' = IF out.picks_log = None THEN picks_log_csv
                                              ELSE out.picks_log
    /\ UNCHANGED <<prog, call, result, sessionVars, tiers_csv>>

Next == RunPipeline \/ InitBoard \/ RemoveSelected \/ Suggest \/ RemovePlayers

Spec == Init /\ [][Next]_vars

\* ---- the claims on the draft board

\* the records on a board (none when there is no board)
OnBoard(b) == IF b = None THEN {} ELSE Range(b[1].rows)

\* the records of the entries i of a picks log with from < i
Logged(log, from) == {DropCols(log[i], {"removed_at"}) : i \in (from + 1)..Len(log)}

\* the normalised names on a board
NamesOn(b) == {str_lower(str_strip(r.player_name)) : r \in OnBoard(b)}

\* the normalised names a removal invocation asks for
Asked(i) == IF prog = "app" THEN Range(app_targets(i.names)) ELSE Range(norm_remove(i.names))

\* a is a prefix of b
IsPrefix(a, b) == Len(a) <= Len(b) /\ \A i \in 1..Len(a) : a[i] = b[i]

\* the picks log file as a sequence, empty when the file does not exist
FileLog(f) == IF f = None THEN <<>> ELSE f[1]

\* the step is a removal invocation that names players and finds a board to work
\* on: the session's board, or the file named on the command line
RemovalOn(working) ==
    /\ inv'.op = "remove"
    /\ Asked(inv') # {}
    /\ working = IF prog = "app" THEN board
                 ELSE IF inv'.board_csv = "tiers_output.csv" THEN tiers_csv ELSE draft_board_csv
    /\ working # None

\* the step leaves the board (the board written is the board read) and the picks
\* log as they are and reports that nothing, or none of the names, was found
NothingRemoved(working) ==
    /\ picks_log' = picks_log
    /\ picks_log_csv' = picks_log_csv
    /\ tiers_csv' = tiers_csv
    /\ IF prog = "app"
       THEN board' = working /\ report'.kind = "warning"
       ELSE /\ draft_board_csv' = working
            /\ report'.kind = "done" /\ report'.removed = <<>>
            /\ Asked(inv') = Range(report'.missing)

\* the step follows a removal invocation, asks for names that one asked for too,
\* and works on the board that one left
RepeatsRemoval ==
    /\ inv.op = "remove"
    /\ Asked(inv') \subseteq Asked(inv)
    /\ prog = "cli" => inv'.board_csv = "draft_board.csv" /\ report.kind = "done"

\* C1: a removal invocation none of whose names is on the working board leaves
\* the board and the picks log unchanged and reports not-found; and an invocation
\* that repeats names of the invocation before it, on the board that one left,
\* finds nothing, logs nothing and reports not-found, so that a record removed
\* by the first is in the picks log once
C1_RemovalIdempotence ==
    [][\A working \in {board, tiers_csv, draft_board_csv} :
          RemovalOn(working) =>
              /\ Asked(inv') \cap NamesOn(working) = {} => NothingRemoved(working)
              /\ RepeatsRemoval => NothingRemoved(working)]_vars

\* a removal was repeated: the last invocation asked for a name that is in the
\* picks log, found nothing, and every record of that name is logged once
C1_Witness ==
    /\ prog = "app"
    /\ inv.op = "remove"
    /\ report.kind = "warning"
    /\ board # None /\ OnBoard(board) # {}
    /\ \E i \in 1..Len(picks_log) :
          /\ str_lower(str_strip(picks_log[i].player_name)) \in Asked(inv)
          /\ \A j \in 1..Len(picks_log) :
                DropCols(picks_log[j], {"removed_at"}) = DropCols(picks_log[i], {"removed_at"}) => j = i

\* C2 as stated: in every state no record of the picks log is on the draft board
C2_Original == prog = "app" => Logged(picks_log, 0) \cap OnBoard(board) = {}

\* C2: a removed record is not on the board again before the board is initialized
\* again: a removal takes the records it logs off the board, and no step other
\* than a board initialization (no pipeline run, removal or suggestion) puts a
\* record on the board
C2_RemovedUntilInit ==
    [][prog = "app" =>
          /\ Logged(picks_log', Len(picks_log)) \cap OnBoard(board') = {}
          /\ inv'.op # "init_board" => OnBoard(board') \subseteq OnBoard(board)]_vars

\* after two removals the board holds what is left of the tiers table and none
\* of the records logged
C2_Witness ==
    /\ prog = "app"
    /\ inv.op = "remove"
    /\ Len(picks_log) >= 2
    /\ picks_log[1].removed_at < picks_log[Len(picks_log)].removed_at
    /\ Logged(picks_log, 0) \subseteq OnBoard(tiers)
    /\ Logged(picks_log, 0) \cap OnBoard(board) = {}
    /\ OnBoard(board) # {}

\* C3: every step (pipeline run, board initialization, removal, suggestion, a
\* run of remove_players.py) leaves the picks log it found as a prefix of the
\* picks log it leaves
C3_AppendOnly ==
    [][/\ IsPrefix(picks_log, picks_log')
       /\ IsPrefix(FileLog(picks_log_csv), FileLog(picks_log_csv'))]_vars

\* entries of two invocations are in the picks log file, in the order of their
\* removal, after an invocation that found nothing
C3_Witness ==
    /\ prog = "cli"
    /\ Len(FileLog(picks_log_csv)) >= 2
    /\ FileLog(picks_log_csv)[1].removed_at < FileLog(picks_log_csv)[Len(FileLog(picks_log_csv))].removed_at
    /\ report.kind = "done" /\ report.removed = <<>> /\ report.missing # <<>>

\* the records of the working board that a removal invocation asks for
Hits(working, i) ==
    LET Hit(r) == str_lower(str_strip(r.player_name)) \in Asked(i)
    IN  SelectSeq(working[1].rows, Hit)

\* the records of the working board that a removal invocation does not ask for
Others(working, i) ==
    LET Miss(r) == str_lower(str_strip(r.player_name)) \notin Asked(i)
    IN  SelectSeq(working[1].rows, Miss)

\* the picks log after is the picks log before and then the records gone, in
\* their order on the board
LoggedAfter(before, after, gone) ==
    /\ Len(after) = Len(before) + Len(gone)
    /\ IsPrefix(before, after)
    /\ \A k \in 1..Len(gone) : DropCols(after[Len(before) + k], {"removed_at"}) = gone[k]

\* C15: a removal invocation takes off the board exactly the records whose
\* lowercased, trimmed player_name is the lowercased, trimmed form of a name asked
\* for (all the records of such a name, none that a name asked for is only a part
\* of), puts exactly those in the picks log, and leaves the other records on the
\* board, as they were and in their order
C15_ExactRemoval ==
    [][\A working \in {board, tiers_csv, draft_board_csv} :
          RemovalOn(working) =>
              IF prog = "app"
              THEN /\ board' # None /\ board'[1].rows = Others(working, inv')
                   /\ LoggedAfter(picks_log, picks_log', Hits(working, inv'))
              ELSE /\ draft_board_csv' # None /\ draft_board_csv'[1].rows = Others(working, inv')
                   /\ LoggedAfter(FileLog(picks_log_csv), FileLog(picks_log_csv'), Hits(working, inv'))]_vars

\* " josh allen " was asked for: the two records of that name, "Josh Allen" and
\* "JOSH ALLEN", are the last two of the picks log, and the record of "Josh" is
\* on the board
C15_Witness ==
    /\ prog = "app"
    /\ inv.op = "remove" /\ inv.names = <<" josh allen ">>
    /\ board # None
    /\ \E r \in OnBoard(board) : r.player_name = "Josh"
    /\ \A r \in OnBoard(board) : str_lower(str_strip(r.player_name)) # "josh allen"
    /\ Len(picks_log) >= 2
    /\ {picks_log[Len(picks_log) - 1].player_name, picks_log[Len(picks_log)].player_name}
           = {"Josh Allen", "JOSH ALLEN"}

\* the report of the step says of each of the names that it was not found: the
\* command line lists them, the application has one warning, without names
ReportsNotFound(names) ==
    IF prog = "app" THEN names # {} => report'.kind = "warning"
    ELSE report'.kind = "done" /\ Range(report'.missing) = names

\* C16: in a removal invocation every name asked for that is the name of no
\* record of the board is reported as not found, also when other names of the
\* invocation are found, and the invocation does not fail: the records of the
\* names found are taken off the board and logged
C16_NotFoundReported ==
    [][\A working \in {board, tiers_csv, draft_board_csv} :
          RemovalOn(working) =>
              /\ ReportsNotFound(Asked(inv') \ NamesOn(working))
              /\ report'.kind \in {"done", "success", "warning"}
              /\ IF prog = "app"
                 THEN /\ OnBoard(board') = Range(Others(working, inv'))
                      /\ Logged(picks_log', Len(picks_log)) = Range(Hits(working, inv'))
                 ELSE /\ OnBoard(draft_board_csv') = Range(Others(working, inv'))
                      /\ Logged(FileLog(picks_log_csv'), Len(FileLog(picks_log_csv))) = Range(Hits(working, inv'))]_vars

\* the rows of a stored table, none when nothing is stored
RowsOf(t) == IF t = None THEN <<>> ELSE t[1].rows

\* C17: a stage whose filter to QB, RB, WR, TE would leave no rows uses the
\* unfiltered table, so that a pipeline run on a non-empty input none of whose
\* records resolves to an offensive position leaves non-empty fantasy-points,
\* VORP and tiers tables
C17_EmptyFilterFallback ==
    (/\ prog = "app"
     /\ inv.op = "run_pipeline" /\ report.kind = "success"
     /\ RowsOf(players) # <<>>
     /\ \A r \in Range(RowsOf(players)) : r.pos \notin OFF_POS)
        => RowsOf(fp) # <<>> /\ RowsOf(vorp) # <<>> /\ RowsOf(tiers) # <<>>

\* the step is a pipeline run that stops at a scoring text it cannot parse
HaltsAtScoring == inv'.op = "run_pipeline" /\ report' = [kind |-> "error", text |-> "Invalid scoring JSON"]

\* C18 as stated: a scoring text that cannot be parsed halts the pipeline run
\* before any computation: the run has gone through no stage (normalization,
\* position resolution, scoring, VORP, tiering) and changes none of the stored
\* tables (players, fantasy points, VORP, tiers, board)
C18_Original ==
    [][HaltsAtScoring =>
          /\ inv'.stages = <<>>
          /\ UNCHANGED <<players, fp, vorp, tiers, board>>]_vars

\* C18: a scoring text that cannot be parsed halts the pipeline run before
\* scoring, VORP and tiering, normalization and position resolution having run,
\* and the run changes none of the stored tables (players, fantasy points, VORP,
\* tiers, board) nor the picks log
C18_HaltsBeforeScoring ==
    [][HaltsAtScoring =>
          /\ Range(inv'.stages) \cap {"scoring", "VORP", "tiering"} = {}
          /\ UNCHANGED <<players, fp, vorp, tiers, board, picks_log>>]_vars

\* a run stopped at the scoring text with the tables of an earlier run, a board
\* and a picks log in the session
C18_Witness ==
    /\ inv.op = "run_pipeline"
    /\ report = [kind |-> "error", text |-> "Invalid scoring JSON"]
    /\ inv.stages = <<"normalization", "position resolution">>
    /\ RowsOf(players) # <<>> /\ RowsOf(fp) # <<>> /\ RowsOf(vorp) # <<>> /\ RowsOf(tiers) # <<>>
    /\ RowsOf(board) # <<>>
    /\ picks_log # <<>>

\* the number of times the record r is in the table t
Count(t, r) == Cardinality({i \in 1..Len(t) : t[i] = r})

\* two tables hold the same records, each as many times
SameRecords(a, b) == \A r \in Range(a) \cup Range(b) : Count(a, r) = Count(b, r)

\* the records a step appends to a picks log
NewLog(before, after) ==
    [k \in 1..(Len(after) - Len(before)) |-> DropCols(after[Len(before) + k], {"removed_at"})]

\* C19: the records of an initialized board are conserved: an initialization
\* makes the board the tiers table, and every later step up to the next
\* initialization (a removal, on the command line a run of remove_players.py on
\* the file it is given) leaves on the board and appends to the picks log,
\* together, the records that were on the board, each as many times, and leaves
\* the tiers table as it is
C19_Conservation ==
    [][/\ prog = "app" =>
            /\ (inv'.op = "init_board" /\ tiers # None) => board' = tiers /\ picks_log' = picks_log
            /\ (inv'.op # "init_board" /\ board # None /\ board' # None) =>
                   /\ SameRecords(board[1].rows, board'[1].rows \o NewLog(picks_log, picks_log'))
                   /\ tiers' = tiers
       /\ prog = "cli" =>
            \A working \in {tiers_csv, draft_board_csv} :
                RemovalOn(working) =>
                   /\ draft_board_csv' # None
                   /\ SameRecords(working[1].rows,
                                  draft_board_csv'[1].rows \o NewLog(FileLog(picks_log_csv), FileLog(picks_log_csv')))
                   /\ tiers_csv' = tiers_csv]_vars

\* after an initialization and removals at two times the board and the picks
\* log hold, together, the records of the tiers table, each once
C19_Witness ==
    /\ prog = "app"
    /\ inv.op = "remove" /\ report.kind = "success"
    /\ RowsOf(board) # <<>>
    /\ Len(picks_log) >= 2
    /\ picks_log[1].removed_at # picks_log[Len(picks_log)].removed_at
    /\ SameRecords(RowsOf(tiers), RowsOf(board) \o NewLog(<<>>, picks_log))

\* ------------------------------------------------------------------ scoring linearity

\* the sum of two scoring rules: corresponding coefficients added, a missing one
\* counting as 0
add_rules(a, b) == [k \in DOMAIN a \cup DOMAIN b |-> get(a, k) + get(b, k)]

LinearStats ==
    [pass_yds : {0, 1, 3, 4000}, pass_td : {0, 30}, pass_int : {0, 10},
     rush_yds : {0, 61}, rush_td : {0}, rec : {0, 3}, rec_yds : {0}, rec_td : {0}]

\* bonus-free scoring rules, in thousandths: the application's default, the
\* spec's example, and two with coefficients below a cent (0.025 and 0.004 a yard)
LinearRules ==
    {[pass_yards |-> 40, pass_td |-> 4000, pass_int |-> -2000, rush_yards |-> 100, rush_td |-> 6000,
      rec |-> 1000, rec_yards |-> 100, rec_td |-> 6000,
      bonus_100_rush_rec_yds |-> 0, bonus_300_pass_yds |-> 0],
     [pass_yards |-> 40, pass_td |-> 4000, pass_int |-> -2000],
     [pass_yards |-> 25, rec |-> 500],
     [pass_yards |-> 4, rush_yards |-> 100]}

InitLinear ==
    /\ prog = "linearity"
    /\ IdleBoard
    /\ call \in [row : LinearStats, a : LinearRules, b : LinearRules]
    /\ result = [a |-> None, b |-> None, sum |-> None]

\* compute_points under the rule A
ScoreA ==
    /\ prog = "linearity"
    /\ result.a = None
    /\ result' = [result EXCEPT !.a = Some(compute_points(call.row, call.a))]
    /\ UNCHANGED <<prog, call, boardVars>>

\* compute_points under the rule B
ScoreB ==
    /\ prog = "linearity"
    /\ result.b = None
    /\ result' = [result EXCEPT !.b = Some(compute_points(call.row, call.b))]
    /\ UNCHANGED <<prog, call, boardVars>>

\* compute_points under the rule A+B
ScoreSum ==
    /\ prog = "linearity"
    /\ result.sum = None
    /\ result' = [result EXCEPT !.sum = Some(compute_points(call.row, add_rules(call.a, call.b)))]
    /\ UNCHANGED <<prog, call, boardVars>>

NextLinear == ScoreA \/ ScoreB \/ ScoreSum

SpecLinear == InitLinear /\ [][NextLinear]_vars

\* the three scores are computed
AllScored == result.a # None /\ result.b # None /\ result.sum # None

\* score(A) + score(B) - score(A+B), in hundredths
LinearityGap == result.a[1].fantasy_points + result.b[1].fantasy_points - result.sum[1].fantasy_points

\* C11 as stated: the rounded scores under A and B add up to the rounded score
\* under A+B
C11_Original == AllScored => LinearityGap = 0

\* C11: the rounded scores under two bonus-free rules A and B add up to the
\* rounded score under A+B whenever the unrounded totals under A and under B are
\* whole hundredths, and differ from it by at most 0.01 otherwise
C11_LinearUpToRounding ==
    AllScored =>
        /\ LinearityGap \in -1..1
        /\ (LinearPoints(call.row, call.a, 8) % 10 = 0 /\ LinearPoints(call.row, call.b, 8) % 10 = 0)
              => LinearityGap = 0

\* two different rules, one of them with a coefficient below a cent, give scores
\* that add up
C11_Witness ==
    /\ AllScored
    /\ call.a = [pass_yards |-> 25, rec |-> 500]
    /\ call.b = [pass_yards |-> 40, pass_td |-> 4000, pass_int |-> -2000]
    /\ call.row.pass_yds = 4000 /\ call.row.rec = 3 /\ call.row.pass_td = 30
    /\ result.a[1].fantasy_points = 10150
    /\ result.b[1].fantasy_points > 0
    /\ LinearityGap = 0

\* ------------------------------------------------------------------ the schema normalizer

\* Here a table is [columns, rows] with columns a sequence of names, of which two
\* can be the same after a rename, and a row the sequence of its cells in the
\* order of the columns.  A cell is the text of the CSV; an empty cell stands
\* for NaN, and the number 0 the code fills in is the text "0".

\* import_projections.py STANDARD
STANDARD ==
    <<"player_name", "team", "pos", "pass_yds", "pass_td", "pass_int",
      "rush_yds", "rush_td", "rec", "rec_yds", "rec_td">>

\* import_projections.py AUTO_MAP, in the order of its keys
cli_AUTO_MAP ==
    <<<<"player_name", <<"player", "name", "player name", "full_name", "fullname", "player_name">>>>,
      <<"team", <<"team", "nfl team", "pro_team", "pro team", "proteam", "tm">>>>,
      <<"pos", <<"pos", "position", "player position">>>>,
      <<"pass_yds", <<"pass_yds", "pass yds", "pass yards", "passyds", "passyards", "passyards_g", "py", "pyards", "passingyards">>>>,
      <<"pass_td", <<"pass_td", "pass tds", "pass touchdowns", "pass td", "ptd", "passingtd", "pass_td_proj", "pass_tds_proj">>>>,
      <<"pass_int", <<"int", "ints", "interceptions", "pass_int", "pass int", "interception">>>>,
      <<"rush_yds", <<"rush_yds", "rush yds", "rush yards", "rushyards", "ry", "rushingyards">>>>,
      <<"rush_td", <<"rush_td", "rush tds", "rush touchdowns", "rtd", "rushingtd", "rush td">>>>,
      <<"rec", <<"rec", "receptions", "catches", "recs">>>>,
      <<"rec_yds", <<"rec_yds", "rec yds", "rec yards", "receivingyards", "ryds", "receiving yds">>>>,
      <<"rec_td", <<"rec_td", "rec tds", "receiving touchdowns", "rctd", "receivingtd", "rec td">>>>>>

\* import_projections.py guess_mapping: the loop over AUTO_MAP from its k-th entry on
RECURSIVE cli_guess_mapping_from(_, _, _)
cli_guess_mapping_from(cols, k, mapping) ==
    IF k > Len(cli_AUTO_MAP) THEN mapping
    ELSE LET std == cli_AUTO_MAP[k][1]
             variants == cli_AUTO_MAP[k][2]
             lc == lower_cols(cols)
             hits == {n \in 1..Len(variants) : variants[n] \in DOMAIN lc /\ lc[variants[n]] \notin DOMAIN mapping}
         IN  IF hits = {} THEN cli_guess_mapping_from(cols, k + 1, mapping)
             ELSE LET n == CHOOSE m \in hits : \A o \in hits : m <= o
                      src == lc[variants[n]]
                  IN  cli_guess_mapping_from(cols, k + 1, [c \in DOMAIN mapping \cup {src} |-> IF c = src THEN std ELSE mapping[c]])

\* import_projections.py guess_mapping
cli_guess_mapping(cols) == cli_guess_mapping_from(cols, 1, <<>>)

\* DataFrame.rename(columns=mapping): the new name of every column, in place
rename_columns(cols, mapping) ==
    [i \in 1..Len(cols) |-> IF cols[i] \in DOMAIN mapping THEN mapping[cols[i]] ELSE cols[i]]

\* "for c in STANDARD: if c not in df.columns: df[c] = 0": the columns added, in order
missing_columns(cols, standard) ==
    LET Absent(c) == c \notin Range(cols)
    IN  SelectSeq(standard, Absent)

\* df[STANDARD]: the positions of the columns selected, every column of a
\* standard name, in the order of STANDARD from its k-th name on
RECURSIVE select_standard(_, _)
select_standard(cols, k) ==
    IF k > Len(STANDARD) THEN <<>>
    ELSE LET AtStd(i) == cols[i] = STANDARD[k]
         IN  SelectSeq([i \in 1..Len(cols) |-> i], AtStd) \o select_standard(cols, k + 1)

\* fillna(0) on one cell
fillna0(cell) == IF cell = "" THEN "0" ELSE cell

\* import_projections.py main, from the table read and the user mapping (a
\* function of source columns, empty without --mapping_json) to the table written
import_main(df, user_map) ==
    LET auto_map == cli_guess_mapping(df.columns)
        user_ok == {src \in DOMAIN user_map : src \in Range(df.columns) /\ user_map[src] \in Range(STANDARD)}
        rename_map == [src \in user_ok \cup DOMAIN auto_map |->
                          IF src \in user_ok THEN user_map[src] ELSE auto_map[src]]
        renamed == rename_columns(df.columns, rename_map)
        added == missing_columns(renamed, STANDARD)
        cols2 == renamed \o added
        picked == select_standard(cols2, 1)
        cols3 == [k \in 1..Len(picked) |-> cols2[picked[k]]]
        rows3 == [r \in 1..Len(df.rows) |->
                     [k \in 1..Len(picked) |->
                         IF picked[k] <= Len(renamed) THEN fillna0(df.rows[r][picked[k]]) ELSE "0"]]
        pos_at == {k \in 1..Len(cols3) : cols3[k] = "pos"}
        IsFantasy(row) == str_upper(row[CHOOSE k \in pos_at : TRUE]) \in {"QB", "RB", "WR", "TE"}
    IN  IF Cardinality(pos_at) > 1
        THEN [ok |-> FALSE, error |-> "AttributeError", renamed |-> renamed]
        ELSE [ok |-> TRUE, renamed |-> renamed, columns |-> cols3, rows |-> SelectSeq(rows3, IsFantasy)]

\* streamlit_draft_app.py run_pipeline, import and normalize, with a mapping file
\* (user_map a function of source columns, empty without the file): the table
\* after coerce_numeric
app_import(df, user_map) ==
    LET auto == guess_mapping(df.columns)
        mapping == [src \in DOMAIN auto \cup DOMAIN user_map |->
                       IF src \in DOMAIN user_map THEN user_map[src] ELSE auto[src]]
        renamed == rename_columns(df.columns, mapping)
        added == missing_columns(renamed, STANDARD_COLS)
        cols2 == renamed \o added
        twice == {c \in NUMERIC_COLS : Cardinality({i \in 1..Len(cols2) : cols2[i] = c}) > 1}
        rows2 == [r \in 1..Len(df.rows) |->
                     [k \in 1..Len(cols2) |->
                         LET cell == IF k <= Len(renamed) THEN df.rows[r][k] ELSE "0"
                         IN  IF cols2[k] \in NUMERIC_COLS THEN coerce_cell(cell) ELSE cell]]
    IN  IF twice # {}
        THEN [ok |-> FALSE, error |-> "AttributeError", renamed |-> renamed]
        ELSE [ok |-> TRUE, renamed |-> renamed, columns |-> cols2, rows |-> rows2]

\* ---- the normalizer under study

MaxImportRows == 2

\* the headers of the projections files
ImportHeaders == {<<"Player", "POS", "YDS", "pass_yds">>, <<"name", "YDS">>, <<"Player", "name", "pos">>}

\* the players of the files: a quarterback, a kicker, a player without a position
ImportKinds == {"qb", "K", ""}

\* the cell of a player under a header
ImportCell(h, kind) ==
    CASE h = "Player" -> "Josh Allen"
      [] h = "name" -> "Josh"
      [] h \in {"POS", "pos"} -> kind
      [] h = "YDS" -> "4,000"
      [] OTHER -> "250"

ImportTables ==
    {[columns |-> h, rows |-> [r \in 1..n |-> [k \in 1..Len(h) |-> ImportCell(h[k], kinds[r])]]] :
        h \in ImportHeaders, n \in 1..MaxImportRows, kinds \in [1..MaxImportRows -> ImportKinds]}

\* the mapping files: {source column: standard column}
UserMaps ==
    {[YDS |-> "pass_yds"], [YDS |-> "rec"], [YDS |-> "fpts"], [Nope |-> "rec"],
     [name |-> "player_name"], [Player |-> "team"]}

InitImport ==
    /\ prog = "import"
    /\ IdleBoard
    /\ call \in [table : ImportTables, mapping_json : {None} \cup {Some(u) : u \in UserMaps}]
    /\ result = [cli |-> None, app |-> None]

\* json.load of the mapping file; no file, no entries
user_map_of(mapping_json) == IF mapping_json = None THEN <<>> ELSE mapping_json[1]

\* python import_projections.py input.csv [--mapping_json ..]
CliImport ==
    /\ prog = "import"
    /\ result.cli = None
    /\ result' = [result EXCEPT !.cli = Some(import_main(call.table, user_map_of(call.mapping_json)))]
    /\ UNCHANGED <<prog, call, boardVars>>

\* the application's import and normalize step
AppImport ==
    /\ prog = "import"
    /\ result.app = None
    /\ result' = [result EXCEPT !.app = Some(app_import(call.table, user_map_of(call.mapping_json)))]
    /\ UNCHANGED <<prog, call, boardVars>>

NextImport == CliImport \/ AppImport

SpecImport == InitImport /\ [][NextImport]_vars

\* an output has one row per input row and exactly the standard columns, and
\* the cells of a standard column that no source column feeds are 0 or empty
\* (coerced: the numeric cells of the output are numbers)
RowsAndColumnsKept(out, coerced) ==
    /\ out.ok
    /\ Len(out.rows) = Len(call.table.rows)
    /\ Len(out.columns) = Len(STANDARD)
    /\ Range(out.columns) = Range(STANDARD)
    /\ \A k \in 1..Len(out.columns) :
          out.columns[k] \notin Range(out.renamed) =>
              \A r \in 1..Len(out.rows) :
                  IF coerced /\ out.columns[k] \in NUMERIC_COLS THEN out.rows[r][k] = 0
                  ELSE out.rows[r][k] \in {"0", ""}

\* C12: without a mapping file, the output of the normalizer (import_projections.py
\* and the application's import step) has one row per input row and exactly the
\* standard columns, a standard column absent after mapping being filled with 0
\* or the empty string
C12_NoRowDropped ==
    call.mapping_json = None =>
        /\ result.cli # None => RowsAndColumnsKept(result.cli[1], FALSE)
        /\ result.app # None => RowsAndColumnsKept(result.app[1], TRUE)

\* the source columns that feed the standard field f in an output
Feeders(out, f) == {call.table.columns[i] : i \in {j \in 1..Len(out.renamed) : out.renamed[j] = f}}

\* the entries of the mapping file that name a column of the input and a
\* standard field
ValidEntries(user_map) ==
    {src \in DOMAIN user_map : src \in Range(call.table.columns) /\ user_map[src] \in Range(STANDARD)}

\* the mapping file without the entries to be ignored
ValidOnly(user_map) == [src \in ValidEntries(user_map) |-> user_map[src]]

\* the merge of the automatic guess and the mapping file as specified: a field
\* with a valid user entry is fed by that entry's source column, any other field
\* by its guessed source column unless a valid user entry claims that column, and
\* no field by two columns
MergedAsSpecified(out, auto, user_map) ==
    \A f \in Range(STANDARD) :
        LET user_src == {src \in ValidEntries(user_map) : user_map[src] = f}
            auto_src == {src \in DOMAIN auto : auto[src] = f} \ ValidEntries(user_map)
        IN  /\ Cardinality(Feeders(out, f)) <= 1
            /\ Feeders(out, f) = IF user_src # {} THEN user_src ELSE auto_src

\* C13: for each standard field the feeding source column is the user-mapped one
\* when the mapping file has an entry for the field whose source column exists,
\* and the guessed one otherwise, no standard field is fed by two source columns,
\* and an entry with a missing source column or a non-standard destination
\* changes nothing in the result
C13_MappingMerge ==
    LET user_map == user_map_of(call.mapping_json)
    IN  /\ result.cli # None =>
              /\ MergedAsSpecified(result.cli[1], cli_guess_mapping(call.table.columns), user_map)
              /\ result.cli[1] = import_main(call.table, ValidOnly(user_map))
        /\ result.app # None =>
              /\ MergedAsSpecified(result.app[1], guess_mapping(call.table.columns), user_map)
              /\ result.app[1] = app_import(call.table, ValidOnly(user_map))

\* ------------------------------------------------------------------ suggestions

\* A tiers table here is a sequence of rows [player_name, pos, VORP, Tier]; VORP
\* (hundredths) and Tier are Some(number), or None for a cell that is empty or
\* not a number.  Starting requirements are in halves (the application's inputs
\* step by 0.5), counts on the roster in whole players.

\* pd.to_numeric(errors="coerce").fillna(d)
numeric_or(cell, d) == IF cell = None THEN d ELSE cell[1]

\* have.get(pos, 0), starters.get(pos, 0)
get0(d, pos) == IF pos \in DOMAIN d THEN d[pos] ELSE 0

\* tier_bonus of suggest_pick.py and of the application, in points
tier_bonus(t) == IF t = 1 THEN 15 ELSE IF t = 2 THEN 10 ELSE IF t = 3 THEN 6 ELSE IF t = 4 THEN 3 ELSE 0

\* need_penalty with ">" for ">="
need_penalty_above(pos, have, starters) == IF 2 * get0(have, pos) > get0(starters, pos) THEN -800 ELSE 0

\* need_penalty of suggest_pick.py and of the application, in hundredths
need_penalty(pos, have, starters) == IF 2 * get0(have, pos) >= get0(starters, pos) THEN -800 ELSE 0

\* the columns Tier, VORP, TierBonus, NeedPenalty and SuggestScore of one row; the
\* sum is of whole hundredths, which round(2) leaves as they are
scored(row, have, starters) ==
    LET t == numeric_or(row.Tier, 999)
        v == numeric_or(row.VORP, 0)
        b == tier_bonus(t)
        n == need_penalty(row.pos, have, starters)
    IN  [player_name |-> row.player_name, pos |-> row.pos, Tier |-> t, VORP |-> v,
         TierBonus |-> b, NeedPenalty |-> n, SuggestScore |-> v + 100 * b + n]

\* df.head(n)
head(t, n) == SubSeq(t, 1, IF n < Len(t) THEN n ELSE Len(t))

\* streamlit_draft_app.py suggest
suggest(df_tiers, have, starters, top_n) ==
    LET df == [i \in 1..Len(df_tiers) |-> scored(df_tiers[i], have, starters)]
    IN  head(sort_values(df, [i \in 1..Len(df) |-> <<-df[i].SuggestScore, -df[i].VORP>>]), top_n)

\* suggest_pick.py main, from the table read to the table written
suggest_pick_main(df_tiers, have, starters, top_n) ==
    LET Offensive(row) == row.pos \in {"QB", "RB", "WR", "TE"}
        up == [i \in 1..Len(df_tiers) |-> [df_tiers[i] EXCEPT !.pos = str_strip(str_upper(@))]]
    IN  suggest(SelectSeq(up, Offensive), have, starters, top_n)

\* ---- the suggestions under study

MaxSuggestRows == 2

\* rows of tiers tables: every tier up to 5, a later tier, a row without Tier and
\* VORP, two quarterbacks of one VORP, a position in lower case, a kicker
SuggestPool ==
    {[player_name |-> "Josh Allen", pos |-> "QB", VORP |-> Some(1234), Tier |-> Some(1)],
     [player_name |-> "Jalen Hurts", pos |-> "QB", VORP |-> Some(1234), Tier |-> Some(2)],
     [player_name |-> "Bijan", pos |-> "RB", VORP |-> Some(900), Tier |-> Some(3)],
     [player_name |-> "Nacua", pos |-> "WR", VORP |-> Some(650), Tier |-> Some(4)],
     [player_name |-> "Kelce", pos |-> "TE", VORP |-> Some(-50), Tier |-> Some(5)],
     [player_name |-> "Kamara", pos |-> "rb", VORP |-> Some(0), Tier |-> Some(7)],
     [player_name |-> "Josh", pos |-> "WR", VORP |-> None, Tier |-> None],
     [player_name |-> "Zed", pos |-> "K", VORP |-> Some(300), Tier |-> Some(1)]}

SuggestTables == UNION {[1..n -> SuggestPool] : n \in 1..MaxSuggestRows}

\* --start_*: the defaults, no quarterback, and the application's 1.5 quarterbacks
SuggestStarters ==
    {[QB |-> 2, RB |-> 4, WR |-> 4, TE |-> 2], [QB |-> 0, RB |-> 4, WR |-> 4, TE |-> 2],
     [QB |-> 3, RB |-> 4, WR |-> 4, TE |-> 2]}

\* --have_*
SuggestHave ==
    {[QB |-> 0, RB |-> 0, WR |-> 0, TE |-> 0], [QB |-> 1, RB |-> 2, WR |-> 0, TE |-> 0],
     [QB |-> 2, RB |-> 0, WR |-> 0, TE |-> 1]}

InitSuggest ==
    /\ prog = "suggest"
    /\ IdleBoard
    /\ call \in [tiers : SuggestTables, starters : SuggestStarters, have : SuggestHave, top_n : {1, 10}]
    /\ result = [cli |-> None, app |-> None]

\* python suggest_pick.py tiers.csv --start_.. --have_.. --top_n ..; --start_* are
\* integers (type=int), anything else ends the run in the argument parser
SuggestPick ==
    /\ prog = "suggest"
    /\ result.cli = None
    /\ result' = [result EXCEPT !.cli =
                      IF \E p \in DOMAIN call.starters : call.starters[p] % 2 # 0
                      THEN Some([ok |-> FALSE, error |-> "argument: invalid int value"])
                      ELSE Some([ok |-> TRUE, rows |-> suggest_pick_main(call.tiers, call.have, call.starters, call.top_n)])]
    /\ UNCHANGED <<prog, call, boardVars>>

\* the application's suggestions for a board, top_n=10
AppSuggest ==
    /\ prog = "suggest"
    /\ result.app = None
    /\ result' = [result EXCEPT !.app = Some([ok |-> TRUE, rows |-> suggest(call.tiers, call.have, call.starters, 10)])]
    /\ UNCHANGED <<prog, call, boardVars>>

NextSuggest == SuggestPick \/ AppSuggest

SpecSuggest == InitSuggest /\ [][NextSuggest]_vars

\* the rows of the suggestions of either program
Suggested ==
    (IF result.cli # None /\ result.cli[1].ok THEN Range(result.cli[1].rows) ELSE {})
        \cup (IF result.app # None THEN Range(result.app[1].rows) ELSE {})

\* C14: for every suggested player SuggestScore = VORP + TierBonus + NeedPenalty,
\* TierBonus is 15, 10, 6, 3 for the tiers 1, 2, 3, 4 and 0 from tier 5 on, and
\* NeedPenalty is -8.0 exactly when the count at the player's position is at least
\* the starting requirement of that position (a requirement of 0 included), and
\* 0 otherwise
C14_SuggestScore ==
    /\ \A row \in Suggested :
        /\ row.SuggestScore = row.VORP + 100 * row.TierBonus + row.NeedPenalty
        /\ row.TierBonus = (CASE row.Tier = 1 -> 15 [] row.Tier = 2 -> 10 [] row.Tier = 3 -> 6
                               [] row.Tier = 4 -> 3 [] row.Tier >= 5 -> 0)
        /\ row.NeedPenalty \in {-800, 0}
        /\ row.NeedPenalty = -800 <=> 2 * get0(call.have, row.pos) >= get0(call.starters, row.pos)
    /\ result.app # None =>
          /\ Len(result.app[1].rows) = Len(head(call.tiers, 10))
          /\ {row.player_name : row \in Range(result.app[1].rows)} = {row.player_name : row \in Range(call.tiers)}

\* a quarterback of tier 1 suggested by both programs to a roster without
\* quarterback in a league that starts none
C14_Witness ==
    /\ call.starters.QB = 0 /\ call.have.QB = 0
    /\ result.cli # None /\ result.app # None
    /\ \E row \in Range(result.cli[1].rows) \cap Range(result.app[1].rows) :
           row.Tier = 1 /\ row.VORP = 1234 /\ row.NeedPenalty = -800 /\ row.SuggestScore = 1934

====
